---- MODULE Spec2Model ----
(***************************************************************************)
(* Model of trello_music_manager: the board manager (manager.py), the      *)
(* subcommands (subcommand.py) and the entry point (__main__.py).          *)
(*                                                                         *)
(* The remote Trello board is the state.  Every subcommand is one action   *)
(* that runs the whole handler; each remote request the handler makes is   *)
(* numbered, and the request fails when its number is in the set of        *)
(* failing requests chosen for that run.                                   *)
(***************************************************************************)
EXTENDS Integers, Sequences, FiniteSets, TLC

----------------------------------------------------------------------------
(* Bounds *)

\* albums in the manifests of one directory
MaxAlbums == 2
\* runs of the program in one behaviour
MaxOps == 2
\* runs of the program in one behaviour in which requests fail
MaxFailedRuns == 1
\* requests that fail in one run; they are consecutive requests
MaxFail == 2
\* highest number of a failing request in a load_data run
MaxCalls == 24
\* highest number of a failing request in a run of another subcommand
MaxTaskCalls == 14
\* longest task list passed to complete_tasks
MaxReq == 2

----------------------------------------------------------------------------
(* Names.  A name is the sequence of its "/"-separated segments, so that   *)
(* name.split("/")[-1] and name.startswith("http") are computed on it.     *)

Artists == <<"a", "b">>
Titles == {"t1", "t2"}

album_tasks == <<"Download", "Add metadata", "Transfer to phone", "Listen">>

\* first segments that begin with "http"
HttpWords == {"https:", "http:"}

StartsWithHttp(name) == name[1] \in HttpWords

\* name.split("/")[-1]
LastSegment(name) == name[Len(name)]

\* the shortUrl Trello gives a card: "https://trello.com/c/<id>"
ShortUrl(id) == <<"https:", "", "trello.com", "c", id>>

----------------------------------------------------------------------------
(* State *)

VARIABLES
  board_lists,  \* the lists of the Trello board, in the order the board returns them
  board,        \* the cards of the board, with their checklists and attachments
  manager,      \* the MusicBoardManager of the running process, if constructed
  last,         \* the subcommand that ran last: arguments, requests, result
  prev,         \* a summary of the subcommand that ran before it
  ops,          \* subcommands run so far
  failed        \* runs so far in which requests failed

vars == <<board_lists, board, manager, last, prev, ops, failed>>

----------------------------------------------------------------------------
(* The board *)

NoChecklist == "none"

\* a deleted card: nothing of it can be fetched any more
Tombstone ==
  [name |-> <<"">>, idList |-> 0, closed |-> TRUE, checklist |-> NoChecklist,
   items |-> <<>>, attachments |-> <<>>]

NewCard(list_id, name) ==
  [name |-> name, idList |-> list_id, closed |-> FALSE, checklist |-> NoChecklist,
   items |-> <<>>, attachments |-> <<>>]

EmptyBoard == [cards |-> <<>>, nitems |-> 0]

\* the card as a response carries it: a snapshot taken at the request
CardJson(b, id) ==
  [id |-> id, name |-> b.cards[id].name, idList |-> b.cards[id].idList,
   shortUrl |-> ShortUrl(id)]

Alive(b, id) == id \in 1..Len(b.cards) /\ ~b.cards[id].closed

\* position of the checkitem with the given id on the card, 0 if none
RECURSIVE ItemPos(_, _, _)
ItemPos(items, item_id, i) ==
  IF i > Len(items) THEN 0
  ELSE IF items[i].id = item_id THEN i
  ELSE ItemPos(items, item_id, i + 1)

----------------------------------------------------------------------------
(* A run of a handler.  b: the board, n: requests made so far, o: the      *)
(* numbers of the requests that fail, log: the requests made, exc: an      *)
(* exception is propagating, ret: the value just returned.                 *)

None == [ok |-> FALSE, v |-> 0]
Some(v) == [ok |-> TRUE, v |-> v]

StartRun(b, o) ==
  [b |-> b, n |-> 0, o |-> o, log |-> <<>>, exc |-> FALSE, ret |-> None]

Return(s, r) == [s EXCEPT !.ret = r]

Raise(s) == [s EXCEPT !.exc = TRUE, !.ret = None]

\* a request: item is the checkitem it addresses or, for a card that is
\* created or moved, the list the card goes to
Call(m, card, item, state) == [m |-> m, card |-> card, item |-> item, state |-> state]

\* requests.request: the request is made; it succeeds when the remote can
\* serve it (possible) and this request is not one of the failing ones
make_request(s, call, possible) ==
  LET ok == possible /\ (s.n + 1) \notin s.o
  IN  [s EXCEPT !.n = s.n + 1,
                !.log = Append(s.log, [call |-> call, ok |-> ok]),
                !.ret = [ok |-> ok, v |-> 0]]

----------------------------------------------------------------------------
(* MusicBoardManager: the requests (manager.py) *)

\* the cards of the artists' list, [] when the request fails
get_artists_cards(s, artists_list_id) ==
  LET s1 == make_request(s, Call("get_cards", 0, 0, ""), TRUE)
      ids == {i \in 1..Len(s.b.cards) :
                ~s.b.cards[i].closed /\ s.b.cards[i].idList = artists_list_id}
      json == [k \in 1..Cardinality(ids) |->
                 CardJson(s.b, CHOOSE i \in ids :
                                 Cardinality({j \in ids : j < i}) = k - 1)]
  IN  IF s1.ret.ok THEN Return(s1, Some(json)) ELSE Return(s1, Some(<<>>))

\* the last card of the artists' list that has the artist's name
RECURSIVE LastNamed(_, _, _, _)
LastNamed(cards, name, i, found) ==
  IF i > Len(cards) THEN found
  ELSE LastNamed(cards, name, i + 1,
                 IF cards[i].name = name THEN Some(cards[i]) ELSE found)

get_artist_card(s, artists_list_id, artist) ==
  LET s1 == get_artists_cards(s, artists_list_id)
  IN  Return(s1, LastNamed(s1.ret.v, <<artist>>, 1, None))

get_artist_card_albums_checklist(s, artist_card_id) ==
  LET s1 == make_request(s, Call("get_checklists", artist_card_id, 0, ""),
                         Alive(s.b, artist_card_id))
  IN  IF s1.ret.ok /\ s.b.cards[artist_card_id].checklist = "Albums"
      THEN Return(s1, Some([id |-> artist_card_id]))
      ELSE Return(s1, None)

get_artist_card_albums_checkitems(s, albums_checklist_id) ==
  LET s1 == make_request(s, Call("get_checkitems", albums_checklist_id, 0, ""),
                         Alive(s.b, albums_checklist_id)
                         /\ s.b.cards[albums_checklist_id].checklist # NoChecklist)
  IN  IF s1.ret.ok
      THEN Return(s1, Some(s.b.cards[albums_checklist_id].items))
      ELSE Return(s1, None)

create_card(s, list_id, name) ==
  LET id == Len(s.b.cards) + 1
      s1 == make_request(s, Call("create_card", id, list_id, ""), TRUE)
      b1 == [s.b EXCEPT !.cards = Append(@, NewCard(list_id, name))]
  IN  IF s1.ret.ok
      THEN Return([s1 EXCEPT !.b = b1], Some(CardJson(b1, id)))
      ELSE Return(s1, None)

get_card(s, card_id) ==
  LET s1 == make_request(s, Call("get_card", card_id, 0, ""), Alive(s.b, card_id))
  IN  IF s1.ret.ok THEN Return(s1, Some(CardJson(s.b, card_id))) ELSE Return(s1, None)

\* returns response.status_code == 200 in ret.ok
delete_card(s, card_id) ==
  LET s1 == make_request(s, Call("delete_card", card_id, 0, ""), Alive(s.b, card_id))
  IN  IF s1.ret.ok
      THEN [s1 EXCEPT !.b.cards[card_id] = Tombstone]
      ELSE s1

create_checklist(s, card_id, name) ==
  LET s1 == make_request(s, Call("create_checklist", card_id, 0, ""),
                         Alive(s.b, card_id))
  IN  IF s1.ret.ok
      THEN Return([s1 EXCEPT !.b.cards[card_id].checklist = name],
                  Some([id |-> card_id]))
      ELSE Return(s1, None)

\* one request per item; the items whose request succeeded are returned
RECURSIVE add_items_loop(_, _, _, _, _)
add_items_loop(s, checklist_id, items, i, added_checkitems) ==
  IF i > Len(items) THEN Return(s, Some(added_checkitems))
  ELSE
    LET item_id == s.b.nitems + 1
        s1 == make_request(s, Call("add_checkitem", checklist_id, item_id, ""),
                           Alive(s.b, checklist_id)
                           /\ s.b.cards[checklist_id].checklist # NoChecklist)
        checkitem == [id |-> item_id, name |-> items[i], state |-> "incomplete"]
        s2 == [s1 EXCEPT !.b.nitems = item_id,
                         !.b.cards[checklist_id].items = Append(@, checkitem)]
    IN  IF s1.ret.ok
        THEN add_items_loop(s2, checklist_id, items, i + 1,
                            Append(added_checkitems, checkitem))
        ELSE add_items_loop(s1, checklist_id, items, i + 1, added_checkitems)

add_items_to_checklist(s, checklist_id, items) ==
  add_items_loop(s, checklist_id, items, 1, <<>>)

\* name = <<>> and state = "" stand for the arguments left out (None)
update_checkitem(s, card_id, checkitem_id, name, state) ==
  IF name = <<>> /\ state = "" THEN Return(s, None)
  ELSE
    LET pos == IF Alive(s.b, card_id)
               THEN ItemPos(s.b.cards[card_id].items, checkitem_id, 1) ELSE 0
        s1  == make_request(s, Call("update_checkitem", card_id, checkitem_id, state),
                            pos > 0)
        old == s.b.cards[card_id].items[pos]
        new == [id |-> old.id,
                name |-> IF name # <<>> THEN name ELSE old.name,
                state |-> IF state # "" THEN state ELSE old.state]
    IN  IF s1.ret.ok
        THEN Return([s1 EXCEPT !.b.cards[card_id].items[pos] = new], Some(new))
        ELSE Return(s1, None)

----------------------------------------------------------------------------
(* MusicBoardManager: cards of artists and albums (manager.py).            *)
(* A method is a chain of steps: each step takes the run as the request    *)
(* before it left it (s.ret holds that request's result) and goes on from  *)
(* there.                                                                  *)

InSeq(x, seq) == \E i \in 1..Len(seq) : seq[i] = x

\* the POST of the attachment that points back to the artist's card
add_attachment(s, card_id, url) ==
  LET s1 == make_request(s, Call("add_attachment", card_id, 0, ""),
                         Alive(s.b, card_id))
  IN  IF s1.ret.ok
      THEN [s1 EXCEPT !.b.cards[card_id].attachments = Append(@, url)]
      ELSE s1

\* s: after the attachment request
create_album_card_attached(s, album_card) ==
  IF ~s.ret.ok THEN Return(delete_card(s, album_card.id), None)
  ELSE Return(s, Some(album_card))

\* create_album_card_tasks that leaves the attachment out
create_album_card_tasks_unattached(s, album_card, artist_card_short_url, tasks) ==
  IF Len(s.ret.v) # Len(tasks) THEN Return(delete_card(s, album_card.id), None)
  ELSE Return(s, Some(album_card))

\* s: after add_items_to_checklist
create_album_card_tasks(s, album_card, artist_card_short_url, tasks) ==
  IF Len(s.ret.v) # Len(tasks) THEN Return(delete_card(s, album_card.id), None)
  ELSE create_album_card_attached(
         add_attachment(s, album_card.id, artist_card_short_url), album_card)

\* s: after create_checklist
create_album_card_checklist(s, album_card, artist_card_short_url, tasks) ==
  IF ~s.ret.ok THEN Return(delete_card(s, album_card.id), None)
  ELSE create_album_card_tasks(
         add_items_to_checklist(s, s.ret.v.id,
                                [i \in 1..Len(tasks) |-> <<tasks[i]>>]),
         album_card, artist_card_short_url, tasks)

\* s: after create_card
create_album_card_card(s, artist_card_short_url) ==
  IF ~s.ret.ok THEN Return(s, None)
  ELSE create_album_card_checklist(
         create_checklist(s, s.ret.v.id, "Tasks"), s.ret.v, artist_card_short_url,
         <<"Download", "Add metadata", "Transfer to phone", "Listen">>)

create_album_card(s, album, artist_card_short_url) ==
  create_album_card_card(create_card(s, manager.lists.albums_pending, album),
                         artist_card_short_url)

\* an album card for each album; the checkitem names to add: the card's
\* shortUrl, or the album's title when no card could be made
RECURSIVE album_cards_loop(_, _, _, _, _)

\* s: after create_album_card for albums[i]
album_cards_item(s, albums, artist_card_short_url, i, checklist_items) ==
  album_cards_loop(s, albums, artist_card_short_url, i + 1,
                   Append(checklist_items,
                          IF s.ret.ok THEN s.ret.v.shortUrl ELSE <<albums[i]>>))

album_cards_loop(s, albums, artist_card_short_url, i, checklist_items) ==
  IF i > Len(albums) THEN Return(s, Some(checklist_items))
  ELSE album_cards_item(create_album_card(s, <<albums[i]>>, artist_card_short_url),
                        albums, artist_card_short_url, i, checklist_items)

\* s: after the loop over the albums
create_artist_card_items(s, card, checklist) ==
  Return(add_items_to_checklist(s, checklist.id, s.ret.v), Some(card))

\* s: after create_checklist
create_artist_card_checklist(s, card, albums) ==
  IF ~s.ret.ok THEN Return(delete_card(s, card.id), None)
  ELSE IF albums # <<>>
  THEN create_artist_card_items(album_cards_loop(s, albums, card.shortUrl, 1, <<>>),
                                card, s.ret.v)
  ELSE Return(s, Some(card))

\* s: after create_card
create_artist_card_card(s, albums) ==
  IF ~s.ret.ok THEN Return(s, None)
  ELSE create_artist_card_checklist(create_checklist(s, s.ret.v.id, "Albums"),
                                    s.ret.v, albums)

create_artist_card(s, artist, albums) ==
  create_artist_card_card(create_card(s, manager.lists.artists, <<artist>>), albums)

\* the titles the checkitems stand for: the linked card's name, or the name
RECURSIVE current_albums_loop(_, _, _, _)

\* s: after get_card
current_albums_card(s, albums_checkitems, i, current_albums) ==
  current_albums_loop(s, albums_checkitems, i + 1,
                      IF s.ret.ok THEN Append(current_albums, s.ret.v.name)
                      ELSE current_albums)

current_albums_loop(s, albums_checkitems, i, current_albums) ==
  IF i > Len(albums_checkitems) THEN Return(s, Some(current_albums))
  ELSE IF StartsWithHttp(albums_checkitems[i].name)
  THEN current_albums_card(get_card(s, LastSegment(albums_checkitems[i].name)),
                           albums_checkitems, i, current_albums)
  ELSE current_albums_loop(s, albums_checkitems, i + 1,
                           Append(current_albums, albums_checkitems[i].name))

\* s: after the loop over new_albums
add_new_albums_items(s, albums_checklist) ==
  add_items_to_checklist(s, albums_checklist.id, s.ret.v)

\* add_new_albums_current that takes every local album for a new one
add_new_albums_current_all(s, artist_card_short_url, albums, albums_checklist) ==
  add_new_albums_items(album_cards_loop(s, albums, artist_card_short_url, 1, <<>>),
                       albums_checklist)

\* s: after the loop that collects current_albums
add_new_albums_current(s, artist_card_short_url, albums, albums_checklist) ==
  add_new_albums_items(
    album_cards_loop(s, SelectSeq(albums, LAMBDA album : ~InSeq(<<album>>, s.ret.v)),
                     artist_card_short_url, 1, <<>>),
    albums_checklist)

\* s: after get_artist_card_albums_checkitems; iterating over None raises
\* TypeError
add_new_albums_checkitems(s, artist_card_short_url, albums, albums_checklist) ==
  IF ~s.ret.ok THEN Raise(s)
  ELSE add_new_albums_current(current_albums_loop(s, s.ret.v, 1, <<>>),
                              artist_card_short_url, albums, albums_checklist)

\* s: after get_artist_card_albums_checklist
add_new_albums_checklist(s, artist_card_short_url, albums) ==
  IF ~s.ret.ok THEN Return(s, None)
  ELSE add_new_albums_checkitems(get_artist_card_albums_checkitems(s, s.ret.v.id),
                                 artist_card_short_url, albums, s.ret.v)

add_new_albums_artist_card(s, artist_card_id, artist_card_short_url, albums) ==
  IF albums = <<>> THEN Return(s, None)
  ELSE add_new_albums_checklist(get_artist_card_albums_checklist(s, artist_card_id),
                                artist_card_short_url, albums)

RECURSIVE linked_cards_loop(_, _, _, _, _, _)

\* s: after update_checkitem
linked_cards_updated(s, artist_card_id, artist_card_short_url, albums_checkitems, i, updated_checkitems) ==
  linked_cards_loop(s, artist_card_id, artist_card_short_url, albums_checkitems,
                    i + 1,
                    IF s.ret.ok THEN Append(updated_checkitems, s.ret.v)
                    ELSE updated_checkitems)

\* linked_cards_card that renames the checkitem and leaves its state
linked_cards_card_renaming(s, artist_card_id, artist_card_short_url, albums_checkitems, i, updated_checkitems) ==
  IF ~s.ret.ok
  THEN linked_cards_loop(s, artist_card_id, artist_card_short_url,
                         albums_checkitems, i + 1, updated_checkitems)
  ELSE linked_cards_updated(
         update_checkitem(s, artist_card_id, albums_checkitems[i].id,
                          s.ret.v.shortUrl, ""),
         artist_card_id, artist_card_short_url, albums_checkitems, i,
         updated_checkitems)

\* s: after create_album_card
linked_cards_card(s, artist_card_id, artist_card_short_url, albums_checkitems, i, updated_checkitems) ==
  IF ~s.ret.ok
  THEN linked_cards_loop(s, artist_card_id, artist_card_short_url,
                         albums_checkitems, i + 1, updated_checkitems)
  ELSE linked_cards_updated(
         update_checkitem(s, artist_card_id, albums_checkitems[i].id,
                          s.ret.v.shortUrl, "incomplete"),
         artist_card_id, artist_card_short_url, albums_checkitems, i,
         updated_checkitems)

linked_cards_loop(s, artist_card_id, artist_card_short_url, albums_checkitems, i, updated_checkitems) ==
  IF i > Len(albums_checkitems) THEN Return(s, Some(updated_checkitems))
  ELSE IF StartsWithHttp(albums_checkitems[i].name)
  THEN linked_cards_loop(s, artist_card_id, artist_card_short_url,
                         albums_checkitems, i + 1, updated_checkitems)
  ELSE linked_cards_card(
         create_album_card(s, albums_checkitems[i].name, artist_card_short_url),
         artist_card_id, artist_card_short_url, albums_checkitems, i,
         updated_checkitems)

\* s: after get_artist_card_albums_checkitems; iterating over None raises
\* TypeError
create_linked_checkitems(s, artist_card_id, artist_card_short_url) ==
  IF ~s.ret.ok THEN Raise(s)
  ELSE linked_cards_loop(s, artist_card_id, artist_card_short_url, s.ret.v, 1, <<>>)

\* s: after get_artist_card_albums_checklist
create_linked_checklist(s, artist_card_id, artist_card_short_url) ==
  IF ~s.ret.ok THEN Return(s, None)
  ELSE create_linked_checkitems(get_artist_card_albums_checkitems(s, s.ret.v.id),
                                artist_card_id, artist_card_short_url)

create_linked_album_cards(s, artist_card_id, artist_card_short_url) ==
  create_linked_checklist(get_artist_card_albums_checklist(s, artist_card_id),
                          artist_card_id, artist_card_short_url)

----------------------------------------------------------------------------
(* load_data (subcommand.py; __main__.py holds the same function) *)

EmptyDict == <<>>

Put(dict, key, value) ==
  [k \in DOMAIN dict \cup {key} |-> IF k = key THEN value ELSE dict[k]]

\* os.listdir() sorted: the artists of the directory in name order
SortedArtists(artists_albums) ==
  SelectSeq(Artists, LAMBDA artist : artist \in DOMAIN artists_albums)

\* artists_cards is the list of cards behind the dict {card["name"]: card}:
\* a name stands for the last card that has it
RECURSIVE load_artists_loop(_, _, _, _, _, _, _)

\* s: after create_artist_card
load_artists_new(s, artists, artists_albums, artists_cards, i, new_artists_cards, new_artists_albums_checkitems) ==
  load_artists_loop(s, artists, artists_albums, artists_cards, i + 1,
                    IF s.ret.ok THEN Put(new_artists_cards, artists[i], s.ret.v)
                    ELSE new_artists_cards,
                    new_artists_albums_checkitems)

\* s: after add_new_albums_artist_card
load_artists_known(s, artists, artists_albums, artists_cards, i, new_artists_cards, new_artists_albums_checkitems) ==
  load_artists_loop(s, artists, artists_albums, artists_cards, i + 1,
                    new_artists_cards,
                    IF s.ret.ok /\ s.ret.v # <<>>
                    THEN Put(new_artists_albums_checkitems, artists[i], s.ret.v)
                    ELSE new_artists_albums_checkitems)

\* artist_card: artists_cards[artist], if the artist is in artists_cards
load_artists_artist(s, artists, artists_albums, artists_cards, i, new_artists_cards, new_artists_albums_checkitems, artist_card) ==
  IF ~artist_card.ok
  THEN load_artists_new(
         create_artist_card(s, artists[i], artists_albums[artists[i]]),
         artists, artists_albums, artists_cards, i, new_artists_cards,
         new_artists_albums_checkitems)
  ELSE load_artists_known(
         add_new_albums_artist_card(s, artist_card.v.id, artist_card.v.shortUrl,
                                    artists_albums[artists[i]]),
         artists, artists_albums, artists_cards, i, new_artists_cards,
         new_artists_albums_checkitems)

load_artists_loop(s, artists, artists_albums, artists_cards, i, new_artists_cards, new_artists_albums_checkitems) ==
  IF s.exc THEN s
  ELSE IF i > Len(artists)
  THEN Return(s, Some([new_artists_cards |-> new_artists_cards,
                       new_artists_albums_checkitems |->
                         new_artists_albums_checkitems]))
  ELSE load_artists_artist(s, artists, artists_albums, artists_cards, i,
                           new_artists_cards, new_artists_albums_checkitems,
                           LastNamed(artists_cards, <<artists[i]>>, 1, None))

RECURSIVE link_artists_loop(_, _, _, _, _, _)

\* s: after create_linked_album_cards
link_artists_linked(s, artists, artists_cards, new_artists_cards, i, linked_albums_checkitems) ==
  link_artists_loop(s, artists, artists_cards, new_artists_cards, i + 1,
                    IF s.ret.ok /\ s.ret.v # <<>>
                    THEN Put(linked_albums_checkitems, artists[i], s.ret.v)
                    ELSE linked_albums_checkitems)

\* card: the artist's new card or else the card in artists_cards, if any
link_artists_artist(s, artists, artists_cards, new_artists_cards, i, linked_albums_checkitems, card) ==
  IF ~card.ok
  THEN link_artists_loop(s, artists, artists_cards, new_artists_cards, i + 1,
                         linked_albums_checkitems)
  ELSE link_artists_linked(
         create_linked_album_cards(s, card.v.id, card.v.shortUrl),
         artists, artists_cards, new_artists_cards, i, linked_albums_checkitems)

link_artists_loop(s, artists, artists_cards, new_artists_cards, i, linked_albums_checkitems) ==
  IF s.exc THEN s
  ELSE IF i > Len(artists) THEN Return(s, Some(linked_albums_checkitems))
  ELSE link_artists_artist(s, artists, artists_cards, new_artists_cards, i,
                           linked_albums_checkitems,
                           IF artists[i] \in DOMAIN new_artists_cards
                           THEN Some(new_artists_cards[artists[i]])
                           ELSE LastNamed(artists_cards, <<artists[i]>>, 1, None))

\* s: after the loop that links; new: what the first loop returned
load_data_report(s, new) ==
  IF s.exc THEN s
  ELSE Return(s, Some([new_artists_cards |-> new.new_artists_cards,
                       new_artists_albums_checkitems |->
                         new.new_artists_albums_checkitems,
                       linked_albums_checkitems |-> s.ret.v]))

\* s: after the loop over artists_albums
load_data_link(s, artists, artists_cards) ==
  IF s.exc THEN s
  ELSE load_data_report(
         link_artists_loop(s, artists, artists_cards, s.ret.v.new_artists_cards, 1,
                           EmptyDict),
         s.ret.v)

\* s: after get_artists_cards
load_data_cards(s, artists, artists_albums) ==
  load_data_link(
    load_artists_loop(s, artists, artists_albums, s.ret.v, 1, EmptyDict, EmptyDict),
    artists, s.ret.v)

\* artists_albums: the albums manifest of each artist directory
load_data(s, artists_albums) ==
  load_data_cards(get_artists_cards(s, manager.lists.artists),
                  SortedArtists(artists_albums), artists_albums)

----------------------------------------------------------------------------
(* MusicBoardManager: the methods subcommand.py calls that manager.py does *)
(* not hold.  They follow the specification's gateway (4.1) and the lookup *)
(* album_status makes in __main__.py.                                      *)

get_album_card_tasks_checklist(s, album_card_id) ==
  LET s1 == make_request(s, Call("get_checklists", album_card_id, 0, ""),
                         Alive(s.b, album_card_id))
  IN  IF s1.ret.ok /\ s.b.cards[album_card_id].checklist = "Tasks"
      THEN Return(s1, Some([id |-> album_card_id]))
      ELSE Return(s1, None)

get_checkitems(s, checklist_id) ==
  LET s1 == make_request(s, Call("get_checkitems", checklist_id, 0, ""),
                         Alive(s.b, checklist_id)
                         /\ s.b.cards[checklist_id].checklist # NoChecklist)
  IN  IF s1.ret.ok
      THEN Return(s1, Some(s.b.cards[checklist_id].items))
      ELSE Return(s1, None)

move_card(s, card_id, list_id) ==
  LET s1 == make_request(s, Call("move_card", card_id, list_id, ""), Alive(s.b, card_id))
  IN  IF s1.ret.ok
      THEN Return([s1 EXCEPT !.b.cards[card_id].idList = list_id],
                  Some([CardJson(s.b, card_id) EXCEPT !.idList = list_id]))
      ELSE Return(s1, None)

\* returns whether the checkitem was deleted in ret.ok
delete_checkitem(s, card_id, checkitem_id) ==
  LET pos == IF Alive(s.b, card_id)
             THEN ItemPos(s.b.cards[card_id].items, checkitem_id, 1) ELSE 0
      s1  == make_request(s, Call("delete_checkitem", card_id, checkitem_id, ""),
                          pos > 0)
      items == s.b.cards[card_id].items
  IN  IF s1.ret.ok
      THEN [s1 EXCEPT !.b.cards[card_id].items =
                         SubSeq(items, 1, pos - 1) \o SubSeq(items, pos + 1, Len(items))]
      ELSE s1

\* the first linked checkitem whose card has the album's title; an unlinked
\* checkitem met before it ends the search
RECURSIVE find_album_loop(_, _, _, _, _)

\* s: after get_card
find_album_card(s, albums_checkitems, album, artist_card_id, i) ==
  IF s.ret.ok /\ s.ret.v.name = <<album>>
  THEN Return(s, Some([id |-> s.ret.v.id, name |-> s.ret.v.name,
                       idList |-> s.ret.v.idList, shortUrl |-> s.ret.v.shortUrl,
                       _checkitem_state |-> albums_checkitems[i].state,
                       _checkitem_id |-> albums_checkitems[i].id,
                       _artist_card_id |-> artist_card_id]))
  ELSE find_album_loop(s, albums_checkitems, album, artist_card_id, i + 1)

find_album_loop(s, albums_checkitems, album, artist_card_id, i) ==
  IF i > Len(albums_checkitems) THEN Return(s, None)
  ELSE IF ~StartsWithHttp(albums_checkitems[i].name) THEN Return(s, None)
  ELSE find_album_card(get_card(s, LastSegment(albums_checkitems[i].name)),
                       albums_checkitems, album, artist_card_id, i)

\* s: after get_checkitems
get_album_card_checkitems(s, album, artist_card_id) ==
  IF ~s.ret.ok \/ s.ret.v = <<>> THEN Return(s, None)
  ELSE find_album_loop(s, s.ret.v, album, artist_card_id, 1)

\* s: after get_artist_card_albums_checklist
get_album_card_checklist(s, album, artist_card_id) ==
  IF ~s.ret.ok THEN Return(s, None)
  ELSE get_album_card_checkitems(get_checkitems(s, s.ret.v.id), album,
                                 artist_card_id)

\* s: after get_artist_card
get_album_card_artist(s, album) ==
  IF ~s.ret.ok THEN Return(s, None)
  ELSE get_album_card_checklist(get_artist_card_albums_checklist(s, s.ret.v.id),
                                album, s.ret.v.id)

get_album_card(s, artist, album) ==
  get_album_card_artist(get_artist_card(s, manager.lists.artists, artist), album)

----------------------------------------------------------------------------
(* complete_tasks, reset_tasks, delete_album (subcommand.py) *)

TaskKeys == {<<album_tasks[i]>> : i \in 1..Len(album_tasks)}

\* ret is None when an update failed (the handler returns None at once),
\* else the dict tasks_completed
RECURSIVE complete_loop(_, _, _, _, _, _)

\* complete_loop_updated that goes on with the next task after a failed update
complete_loop_updated_anyway(s, album_card, tasks, tasks_checkitems, i, tasks_completed) ==
  complete_loop(s, album_card, tasks, tasks_checkitems, i + 1,
                Put(tasks_completed, tasks_checkitems[i].name, s.ret.ok))

\* s: after update_checkitem
complete_loop_updated(s, album_card, tasks, tasks_checkitems, i, tasks_completed) ==
  IF ~s.ret.ok THEN Return(s, None)
  ELSE complete_loop(s, album_card, tasks, tasks_checkitems, i + 1,
                     Put(tasks_completed, tasks_checkitems[i].name, TRUE))

\* complete_loop that also marks the complete tasks not asked for incomplete
complete_loop_exactly(s, album_card, tasks, tasks_checkitems, i, tasks_completed) ==
  IF i > Len(tasks_checkitems) THEN Return(s, Some(tasks_completed))
  ELSE IF InSeq(tasks_checkitems[i].name, [k \in 1..Len(tasks) |-> <<tasks[k]>>])
  THEN complete_loop_updated(
         update_checkitem(s, album_card.id, tasks_checkitems[i].id, <<>>, "complete"),
         album_card, tasks, tasks_checkitems, i, tasks_completed)
  ELSE complete_loop_updated(
         Return(update_checkitem(s, album_card.id, tasks_checkitems[i].id, <<>>,
                                 "incomplete"),
                Some(FALSE)),
         album_card, tasks, tasks_checkitems, i,
         Put(tasks_completed, tasks_checkitems[i].name, FALSE))

\* complete_loop that updates the tasks asked for without looking at their state
complete_loop_always(s, album_card, tasks, tasks_checkitems, i, tasks_completed) ==
  IF i > Len(tasks_checkitems) THEN Return(s, Some(tasks_completed))
  ELSE IF InSeq(tasks_checkitems[i].name, [k \in 1..Len(tasks) |-> <<tasks[k]>>])
  THEN complete_loop_updated(
         update_checkitem(s, album_card.id, tasks_checkitems[i].id, <<>>, "complete"),
         album_card, tasks, tasks_checkitems, i, tasks_completed)
  ELSE complete_loop(s, album_card, tasks, tasks_checkitems, i + 1,
                     Put(tasks_completed, tasks_checkitems[i].name,
                         tasks_checkitems[i].state = "complete"))

complete_loop(s, album_card, tasks, tasks_checkitems, i, tasks_completed) ==
  IF i > Len(tasks_checkitems) THEN Return(s, Some(tasks_completed))
  ELSE IF /\ InSeq(tasks_checkitems[i].name, [k \in 1..Len(tasks) |-> <<tasks[k]>>])
          /\ tasks_checkitems[i].state # "complete"
  THEN complete_loop_updated(
         update_checkitem(s, album_card.id, tasks_checkitems[i].id, <<>>, "complete"),
         album_card, tasks, tasks_checkitems, i, tasks_completed)
  ELSE complete_loop(s, album_card, tasks, tasks_checkitems, i + 1,
                     Put(tasks_completed, tasks_checkitems[i].name,
                         tasks_checkitems[i].state = "complete"))

\* complete_tasks_checkitem that leaves the artist's checkitem as it is
complete_tasks_checkitem_never(s, album_card, state) == s

\* s: after the move, if one was made; a failure of the update is printed
complete_tasks_checkitem(s, album_card, state) ==
  IF album_card._checkitem_state # state
  THEN update_checkitem(s, album_card._artist_card_id, album_card._checkitem_id,
                        <<>>, state)
  ELSE s

\* complete_tasks_move that leaves the card in its list
complete_tasks_move_nowhere(s, album_card, list_id, state) ==
  complete_tasks_checkitem(s, album_card, state)

\* complete_tasks_move that leaves the artist's checkitem alone when the move
\* failed
complete_tasks_move_stopping(s, album_card, list_id, state) ==
  IF album_card.idList # list_id
  THEN LET s1 == move_card(s, album_card.id, list_id)
       IN  IF s1.ret.ok THEN complete_tasks_checkitem(s1, album_card, state) ELSE s1
  ELSE complete_tasks_checkitem(s, album_card, state)

\* complete_tasks_move that moves the card to the artists' list
complete_tasks_move_astray(s, album_card, list_id, state) ==
  complete_tasks_checkitem(
    IF album_card.idList # list_id
    THEN move_card(s, album_card.id, manager.lists.artists) ELSE s,
    album_card, state)

\* complete_tasks_move that deletes the card it should move
complete_tasks_move_deleting(s, album_card, list_id, state) ==
  complete_tasks_checkitem(
    IF album_card.idList # list_id THEN delete_card(s, album_card.id) ELSE s,
    album_card, state)

\* a failure of the move is printed
complete_tasks_move(s, album_card, list_id, state) ==
  complete_tasks_checkitem(
    IF album_card.idList # list_id THEN move_card(s, album_card.id, list_id) ELSE s,
    album_card, state)

\* s: after the loop over the task checkitems
complete_tasks_report(s, artist, album, album_card) ==
  LET tasks_completed == s.ret.v
      all == \A task \in DOMAIN tasks_completed : tasks_completed[task]
      any == \E task \in DOMAIN tasks_completed : tasks_completed[task]
      report == [artist |-> artist, album |-> album, completed |-> all,
                 tasks |-> tasks_completed]
  IN  IF ~s.ret.ok THEN Return(s, None)
      ELSE IF all
      THEN Return(complete_tasks_move(s, album_card, manager.lists.albums_done,
                                      "complete"),
                  Some(report))
      ELSE IF any
      THEN Return(complete_tasks_move(s, album_card, manager.lists.albums_doing,
                                      "incomplete"),
                  Some(report))
      ELSE Return(s, Some(report))

\* s: after get_checkitems
complete_tasks_checkitems(s, artist, album, tasks, album_card) ==
  IF ~s.ret.ok \/ s.ret.v = <<>> THEN Return(s, None)
  ELSE complete_tasks_report(
         complete_loop(s, album_card, tasks, s.ret.v, 1,
                       [task \in TaskKeys |-> FALSE]),
         artist, album, album_card)

\* s: after get_album_card_tasks_checklist
complete_tasks_checklist(s, artist, album, tasks, album_card) ==
  IF ~s.ret.ok THEN Return(s, None)
  ELSE complete_tasks_checkitems(get_checkitems(s, s.ret.v.id), artist, album,
                                 tasks, album_card)

\* s: after get_album_card
complete_tasks_card(s, artist, album, tasks) ==
  IF ~s.ret.ok THEN Return(s, None)
  ELSE complete_tasks_checklist(get_album_card_tasks_checklist(s, s.ret.v.id),
                                artist, album, tasks, s.ret.v)

\* complete_given_tasks that validates the first name only
complete_given_tasks_first(s, artist, album, tasks) ==
  IF ~InSeq(tasks[1], album_tasks) THEN Return(s, None)
  ELSE complete_tasks_card(get_album_card(s, artist, album), artist, album,
                           SelectSeq(tasks, LAMBDA task : InSeq(task, album_tasks)))

\* tasks is not empty
complete_given_tasks(s, artist, album, tasks) ==
  IF \E k \in 1..Len(tasks) : ~InSeq(tasks[k], album_tasks) THEN Return(s, None)
  ELSE complete_tasks_card(get_album_card(s, artist, album), artist, album, tasks)

complete_tasks(s, artist, album, tasks) ==
  complete_given_tasks(s, artist, album,
                       IF tasks = <<>> THEN album_tasks ELSE tasks)

\* ret.ok is FALSE when an update failed
RECURSIVE reset_loop(_, _, _, _)

\* s: after update_checkitem
reset_loop_updated(s, album_card, tasks_checkitems, i) ==
  IF ~s.ret.ok THEN Return(s, None)
  ELSE reset_loop(s, album_card, tasks_checkitems, i + 1)

reset_loop(s, album_card, tasks_checkitems, i) ==
  IF i > Len(tasks_checkitems) THEN Return(s, Some(TRUE))
  ELSE IF /\ tasks_checkitems[i].name \in TaskKeys
          /\ tasks_checkitems[i].state = "complete"
  THEN reset_loop_updated(
         update_checkitem(s, album_card.id, tasks_checkitems[i].id, <<>>,
                          "incomplete"),
         album_card, tasks_checkitems, i)
  ELSE reset_loop(s, album_card, tasks_checkitems, i + 1)

\* s: after the update of the artist's checkitem, if one was made
reset_tasks_done(s) ==
  IF ~s.ret.ok THEN Return(s, None) ELSE Return(s, Some(TRUE))

\* reset_tasks_checkitem that does not look at what the move returned
reset_tasks_checkitem_anyway(s, album_card) ==
  reset_tasks_done(
    IF album_card._checkitem_state # "incomplete"
    THEN update_checkitem(s, album_card._artist_card_id,
                          album_card._checkitem_id, <<>>, "incomplete")
    ELSE s)

\* s: after the move, if one was made
reset_tasks_checkitem(s, album_card) ==
  IF ~s.ret.ok THEN Return(s, None)
  ELSE reset_tasks_done(
         IF album_card._checkitem_state # "incomplete"
         THEN update_checkitem(s, album_card._artist_card_id,
                               album_card._checkitem_id, <<>>, "incomplete")
         ELSE s)

\* reset_tasks_move that moves the card whatever list it is in
reset_tasks_move_always(s, album_card) ==
  IF ~s.ret.ok THEN Return(s, None)
  ELSE reset_tasks_checkitem(
         move_card(s, album_card.id, manager.lists.albums_pending), album_card)

\* s: after the loop over the task checkitems
reset_tasks_move(s, album_card) ==
  IF ~s.ret.ok THEN Return(s, None)
  ELSE reset_tasks_checkitem(
         IF album_card.idList # manager.lists.albums_pending
         THEN move_card(s, album_card.id, manager.lists.albums_pending)
         ELSE s,
         album_card)

\* reset_tasks_checkitems that goes on to the move when the task checkitems
\* could not be fetched
reset_tasks_checkitems_anyway(s, album_card) ==
  IF ~s.ret.ok \/ s.ret.v = <<>>
  THEN reset_tasks_move(Return(s, Some(TRUE)), album_card)
  ELSE reset_tasks_move(reset_loop(s, album_card, s.ret.v, 1), album_card)

\* s: after get_checkitems
reset_tasks_checkitems(s, album_card) ==
  IF ~s.ret.ok \/ s.ret.v = <<>> THEN Return(s, None)
  ELSE reset_tasks_move(reset_loop(s, album_card, s.ret.v, 1), album_card)

\* s: after get_album_card_tasks_checklist
reset_tasks_checklist(s, album_card) ==
  IF ~s.ret.ok THEN Return(s, None)
  ELSE reset_tasks_checkitems(get_checkitems(s, s.ret.v.id), album_card)

\* s: after get_album_card
reset_tasks_card(s) ==
  IF ~s.ret.ok THEN Return(s, None)
  ELSE reset_tasks_checklist(get_album_card_tasks_checklist(s, s.ret.v.id), s.ret.v)

\* ret.ok is the boolean reset_tasks returns
reset_tasks(s, artist, album) == reset_tasks_card(get_album_card(s, artist, album))

\* s: after delete_checkitem
delete_album_checkitem(s) ==
  IF ~s.ret.ok THEN Return(s, None) ELSE Return(s, Some(TRUE))

\* delete_album_deleted that goes on to the checkitem whatever the card
\* deletion returned
delete_album_deleted_anyway(s, album_card) ==
  delete_album_checkitem(
    delete_checkitem(s, album_card._artist_card_id, album_card._checkitem_id))

\* s: after delete_card
delete_album_deleted(s, album_card) ==
  IF ~s.ret.ok THEN Return(s, None)
  ELSE delete_album_checkitem(
         delete_checkitem(s, album_card._artist_card_id, album_card._checkitem_id))

\* s: after get_album_card
delete_album_card(s) ==
  IF ~s.ret.ok THEN Return(s, None)
  ELSE delete_album_deleted(delete_card(s, s.ret.v.id), s.ret.v)

\* ret.ok is the boolean delete_album returns
delete_album(s, artist, album) == delete_album_card(get_album_card(s, artist, album))

----------------------------------------------------------------------------
(* artist_status (__main__.py) *)

Tri(b) == IF b THEN "True" ELSE "False"

\* tasks_status: each task of album_tasks is "None" until a checkitem of its
\* name tells its state
RECURSIVE tasks_status_loop(_, _, _)
tasks_status_loop(tasks_checkitems, i, tasks_status) ==
  IF i > Len(tasks_checkitems) THEN tasks_status
  ELSE tasks_status_loop(tasks_checkitems, i + 1,
                         IF tasks_checkitems[i].name \in DOMAIN tasks_status
                         THEN Put(tasks_status, tasks_checkitems[i].name,
                                  Tri(tasks_checkitems[i].state = "complete"))
                         ELSE tasks_status)

UnknownTasks == [task \in TaskKeys |-> "None"]

RECURSIVE artist_status_loop(_, _, _, _)

\* s: after get_checkitems of the Tasks checklist
artist_status_tasks(s, albums_checkitems, i, albums, album) ==
  artist_status_loop(s, albums_checkitems, i + 1,
                     Put(albums, album,
                         [completed |-> albums_checkitems[i].state = "complete",
                          tasks |-> IF s.ret.ok /\ s.ret.v # <<>>
                                    THEN tasks_status_loop(s.ret.v, 1, UnknownTasks)
                                    ELSE UnknownTasks]))

\* s: after get_album_card_tasks_checklist
artist_status_checklist(s, albums_checkitems, i, albums, album) ==
  IF ~s.ret.ok THEN artist_status_loop(s, albums_checkitems, i + 1, albums)
  ELSE artist_status_tasks(get_checkitems(s, s.ret.v.id), albums_checkitems, i,
                           albums, album)

\* s: after get_card
artist_status_card(s, albums_checkitems, i, albums, album_card_id) ==
  IF ~s.ret.ok THEN artist_status_loop(s, albums_checkitems, i + 1, albums)
  ELSE artist_status_checklist(get_album_card_tasks_checklist(s, album_card_id),
                               albums_checkitems, i, albums, s.ret.v.name)

artist_status_loop(s, albums_checkitems, i, albums) ==
  IF i > Len(albums_checkitems) THEN Return(s, Some(albums))
  ELSE IF StartsWithHttp(albums_checkitems[i].name)
  THEN artist_status_card(get_card(s, LastSegment(albums_checkitems[i].name)),
                          albums_checkitems, i, albums,
                          LastSegment(albums_checkitems[i].name))
  ELSE artist_status_loop(s, albums_checkitems, i + 1,
                          Put(albums, albums_checkitems[i].name,
                              [completed |-> albums_checkitems[i].state = "complete",
                               tasks |-> UnknownTasks]))

\* s: after the loop over the checkitems
artist_status_report(s, artist) ==
  Return(s, Some([artist |-> artist, albums |-> s.ret.v]))

\* s: after get_checkitems of the Albums checklist
artist_status_checkitems(s, artist) ==
  IF ~s.ret.ok \/ s.ret.v = <<>> THEN Return(s, None)
  ELSE artist_status_report(artist_status_loop(s, s.ret.v, 1, EmptyDict), artist)

\* s: after get_artist_card_albums_checklist
artist_status_albums(s, artist) ==
  IF ~s.ret.ok THEN Return(s, None)
  ELSE artist_status_checkitems(get_checkitems(s, s.ret.v.id), artist)

\* s: after get_artist_card
artist_status_artist(s, artist) ==
  IF ~s.ret.ok THEN Return(s, None)
  ELSE artist_status_albums(get_artist_card_albums_checklist(s, s.ret.v.id), artist)

artist_status(s, artist) ==
  artist_status_artist(get_artist_card(s, manager.lists.artists, artist), artist)

----------------------------------------------------------------------------
(* album_status (__main__.py) *)

\* the tasks of album_tasks among the checkitems, each with its state
RECURSIVE album_tasks_loop(_, _, _)
album_tasks_loop(tasks_checkitems, i, tasks) ==
  IF i > Len(tasks_checkitems) THEN tasks
  ELSE album_tasks_loop(tasks_checkitems, i + 1,
                        IF tasks_checkitems[i].name \in TaskKeys
                        THEN Put(tasks, tasks_checkitems[i].name,
                                 tasks_checkitems[i].state = "complete")
                        ELSE tasks)

\* s: after get_checkitems of the Tasks checklist
album_status_tasks(s, artist, album, album_state) ==
  IF ~s.ret.ok \/ s.ret.v = <<>> THEN Return(s, None)
  ELSE Return(s, Some([artist |-> artist, album |-> album,
                       completed |-> album_state = "complete",
                       tasks |-> album_tasks_loop(s.ret.v, 1, EmptyDict)]))

\* s: after get_album_card_tasks_checklist
album_status_checklist(s, artist, album, album_state) ==
  IF ~s.ret.ok THEN Return(s, None)
  ELSE album_status_tasks(get_checkitems(s, s.ret.v.id), artist, album, album_state)

\* s: after the loop over the checkitems; ret holds album_card and album_state
album_status_found(s, artist, album) ==
  IF ~s.ret.ok THEN Return(s, None)
  ELSE album_status_checklist(get_album_card_tasks_checklist(s, s.ret.v.album_card.id),
                              artist, album, s.ret.v.album_state)

RECURSIVE album_status_loop(_, _, _, _)

\* s: after get_card
album_status_card(s, albums_checkitems, album, i) ==
  IF s.ret.ok /\ s.ret.v.name = <<album>>
  THEN Return(s, Some([album_card |-> s.ret.v,
                       album_state |-> albums_checkitems[i].state]))
  ELSE album_status_loop(s, albums_checkitems, album, i + 1)

\* album_status_loop that sends DELETE for the card instead of GET
album_status_loop_deleting(s, albums_checkitems, album, i) ==
  IF i > Len(albums_checkitems) THEN Return(s, None)
  ELSE IF ~StartsWithHttp(albums_checkitems[i].name) THEN Return(s, None)
  ELSE LET album_card_id == LastSegment(albums_checkitems[i].name)
           s1 == delete_card(s, album_card_id)
       IN  album_status_card(IF s1.ret.ok
                             THEN Return(s1, Some(CardJson(s.b, album_card_id)))
                             ELSE s1,
                             albums_checkitems, album, i)

\* album_status_loop that passes over a checkitem that is no link
album_status_loop_skipping(s, albums_checkitems, album, i) ==
  IF i > Len(albums_checkitems) THEN Return(s, None)
  ELSE IF ~StartsWithHttp(albums_checkitems[i].name)
  THEN album_status_loop(s, albums_checkitems, album, i + 1)
  ELSE album_status_card(get_card(s, LastSegment(albums_checkitems[i].name)),
                         albums_checkitems, album, i)

\* a checkitem that is no link ends the search with nothing
album_status_loop(s, albums_checkitems, album, i) ==
  IF i > Len(albums_checkitems) THEN Return(s, None)
  ELSE IF ~StartsWithHttp(albums_checkitems[i].name) THEN Return(s, None)
  ELSE album_status_card(get_card(s, LastSegment(albums_checkitems[i].name)),
                         albums_checkitems, album, i)

\* s: after get_checkitems of the Albums checklist
album_status_checkitems(s, artist, album) ==
  IF ~s.ret.ok \/ s.ret.v = <<>> THEN Return(s, None)
  ELSE album_status_found(album_status_loop(s, s.ret.v, album, 1), artist, album)

\* s: after get_artist_card_albums_checklist
album_status_albums(s, artist, album) ==
  IF ~s.ret.ok THEN Return(s, None)
  ELSE album_status_checkitems(get_checkitems(s, s.ret.v.id), artist, album)

\* s: after get_artist_card
album_status_artist(s, artist, album) ==
  IF ~s.ret.ok THEN Return(s, None)
  ELSE album_status_albums(get_artist_card_albums_checklist(s, s.ret.v.id),
                           artist, album)

album_status(s, artist, album) ==
  album_status_artist(get_artist_card(s, manager.lists.artists, artist), artist, album)

----------------------------------------------------------------------------
(* Construction of the manager (manager.py, __main__.py) *)

\* the names the configuration gives the four lists
artists_list_name == "Artists"
albums_pending_list_name == "Pending"
albums_doing_list_name == "Doing"
albums_done_list_name == "Done"

Roles == {"artists", "albums_pending", "albums_doing", "albums_done"}

\* a role not bound to a list holds 0 (None)
RECURSIVE bind_lists_loop(_, _, _)
bind_lists_loop(trello_lists, i, lists) ==
  IF i > Len(trello_lists) THEN lists
  ELSE
    LET trello_list == trello_lists[i]
        l1 == IF trello_list.name = artists_list_name
              THEN [lists EXCEPT !.artists = trello_list.id] ELSE lists
        l2 == IF trello_list.name = albums_pending_list_name
              THEN [l1 EXCEPT !.albums_pending = trello_list.id] ELSE l1
        l3 == IF trello_list.name = albums_doing_list_name
              THEN [l2 EXCEPT !.albums_doing = trello_list.id] ELSE l2
        l4 == IF trello_list.name = albums_done_list_name
              THEN [l3 EXCEPT !.albums_done = trello_list.id] ELSE l3
    IN  bind_lists_loop(trello_lists, i + 1, l4)

\* get_board_lists that raises only when the request fails
get_board_lists_partial(s) ==
  LET s1 == make_request(s, Call("get_lists", 0, 0, ""), TRUE)
      lists == bind_lists_loop(board_lists, 1, [role \in Roles |-> 0])
  IN  IF ~s1.ret.ok THEN Raise(s1) ELSE Return(s1, Some(lists))

\* raises MusicBoardManagerConfigError (exc) or returns the four lists
get_board_lists(s) ==
  LET s1 == make_request(s, Call("get_lists", 0, 0, ""), TRUE)
      lists == bind_lists_loop(board_lists, 1, [role \in Roles |-> 0])
  IN  IF ~s1.ret.ok THEN Raise(s1)
      ELSE IF \E k \in Roles : lists[k] = 0 THEN Raise(s1)
      ELSE Return(s1, Some(lists))

NoManager == [state |-> "none", lists |-> [role \in Roles |-> 0], fetched |-> FALSE]

----------------------------------------------------------------------------
(* Inputs *)

\* the requests that fail in a run: none, or consecutive ones from request k
Oracles(calls) ==
  {{}} \cup (IF failed < MaxFailedRuns
             THEN {k..(k + l - 1) : k \in 1..calls, l \in 1..MaxFail}
             ELSE {})

Faulty(r) == IF r.o \cap 1..r.n # {} THEN 1 ELSE 0

RECURSIVE SeqsUpTo(_, _)
SeqsUpTo(S, n) ==
  IF n = 0 THEN {<<>>}
  ELSE LET shorter == SeqsUpTo(S, n - 1)
       IN  shorter \cup {Append(q, x) : q \in shorter, x \in S}

RECURSIVE TotalAlbums(_, _)
TotalAlbums(artists_albums, artists) ==
  IF artists = {} THEN 0
  ELSE LET a == CHOOSE x \in artists : TRUE
       IN  Len(artists_albums[a]) + TotalAlbums(artists_albums, artists \ {a})

\* the directory: each artist directory with its albums manifest
Directories ==
  LET manifests == SeqsUpTo(Titles, MaxAlbums)
      names == {Artists[i] : i \in 1..Len(Artists)}
  IN  {d \in UNION {[A -> manifests] : A \in SUBSET names} :
         TotalAlbums(d, DOMAIN d) <= MaxAlbums}

\* task lists: tasks of album_tasks in their order, with or without a name
\* that is none of them
TaskLists ==
  LET names == album_tasks \o <<"Rip">>
  IN  {SelectSeq(names, LAMBDA name : name \in S) :
         S \in {T \in SUBSET {names[i] : i \in 1..Len(names)} :
                  Cardinality(T) <= MaxReq}}

----------------------------------------------------------------------------
(* The processes: each run of the program constructs a manager and runs    *)
(* one subcommand with it.                                                 *)

NoArgs == [artist |-> "", album |-> "", tasks |-> <<>>, directory |-> EmptyDict]

Clean(log) == \A i \in 1..Len(log) : log[i].ok

Summary(l) ==
  [cmd |-> l.cmd, args |-> l.args, clean |-> Clean(l.log), exc |-> l.exc,
   ok |-> l.ret.ok]

\* the board's lists as the board returns them: a list's id is its position
Topology(names) == [i \in 1..Len(names) |-> [id |-> i, name |-> names[i]]]

\* boards: one that has every list (and two lists named alike), boards that
\* lack a list, a board of other lists
Boards ==
  {<<"Inbox", "Pending", "Artists", "Doing", "Done", "Pending">>,
   <<"Pending", "Doing", "Done">>,
   <<"Artists", "Doing", "Done">>,
   <<"Artists", "Pending", "Done">>,
   <<"Artists", "Pending", "Doing">>,
   <<"Inbox">>,
   <<>>}

\* nothing has run yet
NoRun ==
  [cmd |-> "", args |-> NoArgs, lists |-> NoManager.lists, pre |-> EmptyBoard,
   log |-> <<>>, exc |-> FALSE, ret |-> None]

Init ==
  /\ board_lists \in {Topology(names) : names \in Boards}
  /\ board = EmptyBoard
  /\ manager = NoManager
  /\ last = NoRun
  /\ prev = Summary(last)
  /\ ops = 0
  /\ failed = 0

\* __main__: MusicBoardManager(...) inside try/except
Construct ==
  /\ manager.state = "none"
  /\ ops < MaxOps
  /\ failed <= MaxFailedRuns
  /\ \E o \in Oracles(1) :
       LET r == get_board_lists(StartRun(board, o))
       IN  /\ manager' = IF r.exc
                         THEN [state |-> "failed", lists |-> NoManager.lists,
                               fetched |-> r.log[1].ok]
                         ELSE [state |-> "ready", lists |-> r.ret.v,
                               fetched |-> r.log[1].ok]
           /\ failed' = failed + Faulty(r)
  /\ UNCHANGED <<board_lists, board, last, prev, ops>>

\* the subcommand has run: the process exits
Finish(cmd, args, r) ==
  /\ board' = r.b
  /\ last' = [cmd |-> cmd, args |-> args, lists |-> manager.lists, pre |-> board,
              log |-> r.log, exc |-> r.exc, ret |-> r.ret]
  /\ prev' = Summary(last)
  /\ ops' = ops + 1
  /\ failed' = failed + Faulty(r)
  /\ manager' = NoManager
  /\ UNCHANGED board_lists

\* __main__ after the except clause: the name manager is not bound, and the
\* subcommand's call raises NameError before it runs
Unbound ==
  /\ manager.state = "failed"
  /\ Finish("", NoArgs, Raise(StartRun(board, {})))

LoadData(directories) ==
  /\ manager.state = "ready"
  /\ ops < MaxOps
  /\ \E directory \in directories, o \in Oracles(MaxCalls) :
       Finish("load_data", [NoArgs EXCEPT !.directory = directory],
              load_data(StartRun(board, o), directory))

ArtistStatus ==
  /\ manager.state = "ready"
  /\ ops < MaxOps
  /\ \E i \in 1..Len(Artists), o \in Oracles(MaxTaskCalls) :
       Finish("artist_status", [NoArgs EXCEPT !.artist = Artists[i]],
              artist_status(StartRun(board, o), Artists[i]))

AlbumStatus ==
  /\ manager.state = "ready"
  /\ ops < MaxOps
  /\ \E i \in 1..Len(Artists), album \in Titles, o \in Oracles(MaxTaskCalls) :
       Finish("album_status", [NoArgs EXCEPT !.artist = Artists[i], !.album = album],
              album_status(StartRun(board, o), Artists[i], album))

CompleteTasks ==
  /\ manager.state = "ready"
  /\ ops < MaxOps
  /\ \E i \in 1..Len(Artists), album \in Titles, tasks \in TaskLists,
        o \in Oracles(MaxTaskCalls) :
       Finish("complete_tasks",
              [NoArgs EXCEPT !.artist = Artists[i], !.album = album, !.tasks = tasks],
              complete_tasks(StartRun(board, o), Artists[i], album, tasks))

ResetTasks ==
  /\ manager.state = "ready"
  /\ ops < MaxOps
  /\ \E i \in 1..Len(Artists), album \in Titles, o \in Oracles(MaxTaskCalls) :
       Finish("reset_tasks", [NoArgs EXCEPT !.artist = Artists[i], !.album = album],
              reset_tasks(StartRun(board, o), Artists[i], album))

DeleteAlbum ==
  /\ manager.state = "ready"
  /\ ops < MaxOps
  /\ \E i \in 1..Len(Artists), album \in Titles, o \in Oracles(MaxTaskCalls) :
       Finish("delete_album", [NoArgs EXCEPT !.artist = Artists[i], !.album = album],
              delete_album(StartRun(board, o), Artists[i], album))

Next ==
  \/ Construct
  \/ Unbound
  \/ LoadData(Directories)
  \/ ArtistStatus
  \/ AlbumStatus
  \/ CompleteTasks
  \/ ResetTasks
  \/ DeleteAlbum

Spec == Init /\ [][Next]_vars

----------------------------------------------------------------------------
(* The commands on albums, on boards that load_data has filled *)

\* the board with every list
FullBoard == Topology(<<"Inbox", "Pending", "Artists", "Doing", "Done", "Pending">>)

\* the directories load_data has read before the commands run
LoadedDirectories ==
  {d \in Directories : DOMAIN d = {"a"} /\ Len(d["a"]) = MaxAlbums}

InitTasks == Init /\ board_lists = FullBoard

\* load_data fills the empty board, every request succeeding, before the
\* commands on albums are counted
Provision ==
  /\ manager.state = "ready"
  /\ board = EmptyBoard
  /\ ops = 0
  /\ \E directory \in LoadedDirectories :
       board' = load_data(StartRun(board, {}), directory).b
  /\ manager' = NoManager
  /\ UNCHANGED <<board_lists, last, prev, ops, failed>>

Provisioned == board # EmptyBoard

NextTasks ==
  \/ Construct
  \/ Unbound
  \/ Provision
  \/ Provisioned /\ ArtistStatus
  \/ Provisioned /\ AlbumStatus
  \/ Provisioned /\ CompleteTasks
  \/ Provisioned /\ ResetTasks
  \/ Provisioned /\ DeleteAlbum

SpecTasks == InitTasks /\ [][NextTasks]_vars

----------------------------------------------------------------------------
(* load_data when the requests that fail are not consecutive *)

\* the requests that fail in a run: none, or any one or two requests
Scattered(calls) ==
  {{}} \cup (IF failed < MaxFailedRuns
             THEN {{j, k} : j, k \in 1..calls}
             ELSE {})

LoadDataScattered ==
  /\ manager.state = "ready"
  /\ ops < MaxOps
  /\ \E directory \in Directories, o \in Scattered(MaxCalls) :
       Finish("load_data", [NoArgs EXCEPT !.directory = directory],
              load_data(StartRun(board, o), directory))

NextLink ==
  \/ Construct
  \/ Unbound
  \/ LoadDataScattered
  \/ Provisioned /\ AlbumStatus

SpecLink == InitTasks /\ [][NextLink]_vars

----------------------------------------------------------------------------
(* load_data run again and again on the same directory *)

\* runs in which requests fail, before every request succeeds
MaxFaultyReloads == 2
\* runs that are counted
MaxReloads == 3
\* highest number of a failing request in these runs
MaxReloadCalls == 8

\* the directory: one artist with one album
ReloadDirectories == {d \in Directories : DOMAIN d = {"a"} /\ Len(d["a"]) = 1}

\* __main__: MusicBoardManager(...), the request for the lists succeeding
ConstructAgain ==
  /\ manager.state = "none"
  /\ LET r == get_board_lists(StartRun(board, {}))
     IN  manager' = [state |-> "ready", lists |-> r.ret.v, fetched |-> r.log[1].ok]
  /\ UNCHANGED <<board_lists, board, last, prev, ops, failed>>

\* load_data on the directory of the run before; requests fail in the first
\* runs only
Reload ==
  /\ manager.state = "ready"
  /\ \E directory \in ReloadDirectories,
        o \in IF ops < MaxFaultyReloads
              THEN {{j, k} : j, k \in 1..MaxReloadCalls} \cup {{}}
              ELSE {{}} :
       /\ last.cmd = "load_data" => directory = last.args.directory
       /\ LET r == load_data(StartRun(board, o), directory)
          IN  /\ board' = r.b
              /\ last' = [cmd |-> "load_data",
                          args |-> [NoArgs EXCEPT !.directory = directory],
                          lists |-> manager.lists, pre |-> board,
                          log |-> r.log, exc |-> r.exc, ret |-> r.ret]
  /\ prev' = Summary(last)
  /\ ops' = IF ops < MaxReloads THEN ops + 1 ELSE ops
  /\ manager' = NoManager
  /\ UNCHANGED <<board_lists, failed>>

NextReload ==
  \/ ConstructAgain
  \/ Reload

SpecReload == InitTasks /\ [][NextReload]_vars

----------------------------------------------------------------------------
(* reset_tasks on boards on which tasks of an album have been completed *)

\* load_data fills the empty board and complete_tasks completes tasks of one
\* album, every request succeeding, before the commands are counted
ProvisionCompleted ==
  /\ manager.state = "ready"
  /\ board = EmptyBoard
  /\ ops = 0
  /\ \E directory \in LoadedDirectories, k \in 1..MaxAlbums, tasks \in TaskLists :
       board' = complete_tasks(
                  StartRun(load_data(StartRun(board, {}), directory).b, {}),
                  "a", directory["a"][k], tasks).b
  /\ manager' = NoManager
  /\ UNCHANGED <<board_lists, last, prev, ops, failed>>

NextReset ==
  \/ Construct
  \/ Unbound
  \/ ProvisionCompleted
  \/ Provisioned /\ ResetTasks

SpecReset == InitTasks /\ [][NextReset]_vars

----------------------------------------------------------------------------
(* What the properties observe on a board *)

\* the requests that change the board
Mutating ==
  {"create_card", "delete_card", "create_checklist", "add_checkitem",
   "add_attachment", "update_checkitem", "move_card", "delete_checkitem"}

Requests(log, methods) == {k \in 1..Len(log) : log[k].call.m \in methods}

\* the artist's card: the last open card of the artists' list with the name
\* (0: none)
ArtistCardOn(b, lists, artist) ==
  LET ids == {i \in 1..Len(b.cards) :
                /\ ~b.cards[i].closed
                /\ b.cards[i].idList = lists.artists
                /\ b.cards[i].name = <<artist>>}
  IN  IF ids = {} THEN 0 ELSE CHOOSE i \in ids : \A j \in ids : j <= i

\* the checkitems of the artist's card that are links to an open card of the
\* album's title
AlbumItemsOn(b, artist_card, album) ==
  LET items == b.cards[artist_card].items
  IN  {p \in 1..Len(items) :
         /\ StartsWithHttp(items[p].name)
         /\ Alive(b, LastSegment(items[p].name))
         /\ b.cards[LastSegment(items[p].name)].name = <<album>>}

\* the album's checkitem on the artist's card: the first of them, when only
\* links come before it (0: none)
AlbumItemOn(b, artist_card, album) ==
  LET items == b.cards[artist_card].items
      hits == {p \in AlbumItemsOn(b, artist_card, album) :
                 \A q \in 1..p : StartsWithHttp(items[q].name)}
  IN  IF artist_card = 0 \/ hits = {} THEN 0
      ELSE CHOOSE p \in hits : \A q \in hits : p <= q

AlbumFound(b, lists, artist, album) ==
  AlbumItemOn(b, ArtistCardOn(b, lists, artist), album) # 0

\* the tasks of album_tasks that are complete on the card
CompleteTasksOn(b, card_id) ==
  {p \in 1..Len(b.cards[card_id].items) :
     /\ b.cards[card_id].items[p].name \in TaskKeys
     /\ b.cards[card_id].items[p].state = "complete"}

\* list, tasks and checkitem of the album agree
TripleConsistent(b, lists, artist, album) ==
  LET artist_card == ArtistCardOn(b, lists, artist)
      checkitem == b.cards[artist_card].items[AlbumItemOn(b, artist_card, album)]
      card_id == LastSegment(checkitem.name)
      n == Cardinality(CompleteTasksOn(b, card_id))
      idList == b.cards[card_id].idList
  IN  /\ (idList = lists.albums_done /\ checkitem.state = "complete")
           <=> n = Len(album_tasks)
      /\ (idList = lists.albums_doing /\ checkitem.state = "incomplete")
           <=> (0 < n /\ n < Len(album_tasks))
      /\ (idList = lists.albums_pending /\ checkitem.state = "incomplete")
           <=> n = 0

ValidTasks(tasks) == \A k \in 1..Len(tasks) : InSeq(tasks[k], album_tasks)

----------------------------------------------------------------------------
(* Properties of complete_tasks and reset_tasks *)

\* complete_tasks or reset_tasks has just run on an album that is on the board,
\* and every request succeeded
TaskRunSucceeded ==
  /\ last.cmd \in {"complete_tasks", "reset_tasks"}
  /\ ValidTasks(last.args.tasks)
  /\ Clean(last.log)
  /\ AlbumFound(last.pre, last.lists, last.args.artist, last.args.album)

\* C1: after a complete_tasks or reset_tasks run in which every request
\* succeeds, from any board the program can reach, the command reports success
\* and the album's triple is consistent: card in albums_done and checkitem
\* complete iff all 4 tasks are complete, card in albums_doing and checkitem
\* incomplete iff some but not all are, card in albums_pending and checkitem
\* incomplete iff none is.
C1_TripleConsistentAfterTasks ==
  TaskRunSucceeded =>
    /\ last.ret.ok
    /\ TripleConsistent(board, last.lists, last.args.artist, last.args.album)

\* a run that succeeded on an album whose triple the run before, in which a
\* request failed, had left inconsistent
C1_Witness ==
  /\ TaskRunSucceeded
  /\ prev.cmd \in {"complete_tasks", "reset_tasks"}
  /\ ~prev.clean
  /\ ~TripleConsistent(last.pre, last.lists, last.args.artist, last.args.album)

\* C5: in every complete_tasks run, whatever tasks are asked for and whatever
\* requests fail, every task checkitem that was complete before the run is
\* complete after it, and no request of the run sets a task checkitem to
\* incomplete.
C5_NeverUncompletes ==
  last.cmd = "complete_tasks" =>
    /\ \A c \in 1..Len(last.pre.cards) :
         last.pre.cards[c].checklist = "Tasks" =>
           \A p \in 1..Len(last.pre.cards[c].items) :
             last.pre.cards[c].items[p].state = "complete" =>
               /\ p <= Len(board.cards[c].items)
               /\ board.cards[c].items[p].state = "complete"
    /\ \A k \in Requests(last.log, {"update_checkitem"}) :
         (last.log[k].call.state = "incomplete"
            /\ last.log[k].call.card \in 1..Len(last.pre.cards))
           => last.pre.cards[last.log[k].call.card].checklist # "Tasks"

\* a complete_tasks run with a failing request that completed a task on a card
\* that had a complete task already
C5_Witness ==
  /\ last.cmd = "complete_tasks"
  /\ ~Clean(last.log)
  /\ \E c \in 1..Len(last.pre.cards) :
       /\ last.pre.cards[c].checklist = "Tasks"
       /\ CompleteTasksOn(last.pre, c) # {}
       /\ CompleteTasksOn(last.pre, c) # CompleteTasksOn(board, c)

\* complete_tasks ran twice in a row with the same arguments, every request of
\* both runs succeeding
SameCompleteTasksTwice ==
  /\ last.cmd = "complete_tasks"
  /\ prev.cmd = "complete_tasks"
  /\ prev.args = last.args
  /\ prev.clean
  /\ Clean(last.log)

\* C6: when complete_tasks runs twice in a row with the same artist, album and
\* tasks and every request succeeds, the second run updates no checkitem, moves
\* no card, and leaves the board as it was.
C6_SecondCompleteTasksIsNoOp ==
  SameCompleteTasksTwice =>
    /\ Requests(last.log, Mutating) = {}
    /\ board = last.pre

\* the second of two such runs, on an album that the first run left with some
\* tasks complete and some not
C6_Witness ==
  /\ SameCompleteTasksTwice
  /\ last.ret.ok
  /\ ~last.ret.v.completed
  /\ \E c \in 1..Len(board.cards) : CompleteTasksOn(board, c) # {}

\* C7: when a task name passed to complete_tasks is none of the 4 fixed names,
\* the run returns nothing and makes no request that changes the board: no task
\* checkitem, list of a card or checkitem of the artist changes, even when the
\* other names are valid.
C7_InvalidTaskRejected ==
  (last.cmd = "complete_tasks" /\ ~ValidTasks(last.args.tasks)) =>
    /\ ~last.ret.ok
    /\ Requests(last.log, Mutating) = {}
    /\ board = last.pre

\* complete_tasks was given a valid name and an invalid one, for an album that
\* is on the board
C7_Witness ==
  /\ last.cmd = "complete_tasks"
  /\ \E k \in 1..Len(last.args.tasks) : InSeq(last.args.tasks[k], album_tasks)
  /\ \E k \in 1..Len(last.args.tasks) : ~InSeq(last.args.tasks[k], album_tasks)
  /\ AlbumFound(board, last.lists, last.args.artist, last.args.album)

----------------------------------------------------------------------------
(* Properties of load_data *)

\* load_data ran twice in a row on the same directory, every request of both
\* runs succeeding
SameLoadDataTwice ==
  /\ last.cmd = "load_data"
  /\ prev.cmd = "load_data"
  /\ prev.args = last.args
  /\ prev.clean
  /\ Clean(last.log)

\* C3: when load_data runs a second time on the same local data, on the board
\* a first fully successful run has synced, and every request succeeds, the
\* second run creates no card, adds no checkitem and renames no checkitem.
C3_SecondLoadDataCreatesNothing ==
  SameLoadDataTwice =>
    Requests(last.log, {"create_card", "add_checkitem", "update_checkitem"}) = {}

\* the second of two such runs, for a directory with albums
C3_Witness ==
  /\ SameLoadDataTwice
  /\ \E artist \in DOMAIN last.args.directory :
       /\ Len(last.args.directory[artist]) = MaxAlbums
       /\ ArtistCardOn(board, last.lists, artist) # 0

\* the open cards of the artists' list with the artist's name
ArtistCardsOn(b, lists, artist) ==
  {i \in 1..Len(b.cards) :
     /\ ~b.cards[i].closed
     /\ b.cards[i].idList = lists.artists
     /\ b.cards[i].name = <<artist>>}

\* the card is an album card as create_album_card makes it
ProvisionedAlbumCard(b, lists, c, title, artist_card) ==
  /\ Alive(b, c)
  /\ b.cards[c].name = <<title>>
  /\ b.cards[c].idList = lists.albums_pending
  /\ b.cards[c].checklist = "Tasks"
  /\ [k \in 1..Len(b.cards[c].items) |-> b.cards[c].items[k].name]
       = [k \in 1..Len(album_tasks) |-> <<album_tasks[k]>>]
  /\ \A k \in 1..Len(b.cards[c].items) : b.cards[c].items[k].state = "incomplete"
  /\ b.cards[c].attachments = <<ShortUrl(artist_card)>>

\* the artist had no card before the run
NewArtist(artist) == ArtistCardsOn(last.pre, last.lists, artist) = {}

\* C9: for an artist with no card on the board and n local albums, a load_data
\* run in which every request succeeds creates exactly one artist card in the
\* artists' list with one Albums checklist of n linked checkitems in the order
\* of the local albums, and exactly n album cards, each in albums_pending with
\* the 4 fixed task checkitems (incomplete, in the fixed order) and one
\* attachment, the artist card's short URL.
C9_NewArtistProvisioned ==
  (last.cmd = "load_data" /\ Clean(last.log)) =>
    \A artist \in DOMAIN last.args.directory :
      NewArtist(artist) =>
        LET albums == last.args.directory[artist]
            artist_card == ArtistCardOn(board, last.lists, artist)
            items == board.cards[artist_card].items
        IN  /\ Cardinality(ArtistCardsOn(board, last.lists, artist)) = 1
            /\ artist_card > Len(last.pre.cards)
            /\ board.cards[artist_card].checklist = "Albums"
            /\ Len(items) = Len(albums)
            /\ \A i \in 1..Len(items) :
                 /\ StartsWithHttp(items[i].name)
                 /\ items[i].name = ShortUrl(LastSegment(items[i].name))
                 /\ items[i].state = "incomplete"
                 /\ LastSegment(items[i].name) > Len(last.pre.cards)
                 /\ ProvisionedAlbumCard(board, last.lists, LastSegment(items[i].name),
                                         albums[i], artist_card)
            /\ \A i, j \in 1..Len(items) :
                 i # j => LastSegment(items[i].name) # LastSegment(items[j].name)
            /\ Cardinality({c \in (Len(last.pre.cards) + 1)..Len(board.cards) :
                              /\ ~board.cards[c].closed
                              /\ InSeq(ShortUrl(artist_card), board.cards[c].attachments)})
                 = Len(albums)

\* such a run for a new artist with albums, on a board that had cards
C9_Witness ==
  /\ last.cmd = "load_data"
  /\ Clean(last.log)
  /\ last.pre # EmptyBoard
  /\ \E artist \in DOMAIN last.args.directory :
       NewArtist(artist) /\ Len(last.args.directory[artist]) = MaxAlbums

----------------------------------------------------------------------------
(* Properties of the construction *)

ConfiguredName(role) ==
  CASE role = "artists" -> artists_list_name
    [] role = "albums_pending" -> albums_pending_list_name
    [] role = "albums_doing" -> albums_doing_list_name
    [] role = "albums_done" -> albums_done_list_name

\* the roles no list of the board has the configured name of
RolesWithoutList ==
  {role \in Roles :
     ~\E i \in 1..Len(board_lists) : board_lists[i].name = ConfiguredName(role)}

\* C8: the construction of the manager fails exactly when the request for the
\* lists fails or a role has no list of its configured name, and then no
\* operation of the manager runs afterwards (no request is made, the board
\* does not change); otherwise it succeeds with each of the four roles bound to
\* a list of its configured name.
C8_ConstructionFailsOrBindsAll ==
  [][/\ (manager.state = "none" /\ manager'.state # "none") =>
          /\ manager'.state = "failed"
               <=> (~manager'.fetched \/ RolesWithoutList # {})
          /\ manager'.state # "failed" =>
               /\ manager'.state = "ready"
               /\ \A role \in Roles :
                    \E i \in 1..Len(board_lists) :
                      /\ board_lists[i].id = manager'.lists[role]
                      /\ board_lists[i].name = ConfiguredName(role)
     /\ manager.state = "failed" =>
          /\ last'.cmd = ""
          /\ last'.exc
          /\ last'.log = <<>>
          /\ board' = board]_vars

\* the process has ended without a request after a construction that failed
\* for a role without a list
C8_Witness ==
  /\ last.cmd = ""
  /\ last.exc
  /\ ops > 0
  /\ RolesWithoutList # {}

----------------------------------------------------------------------------
(* Statements the code does not keep *)

\* C2: when create_album_card returns no card because the Tasks checklist,
\* one of the 4 task checkitems or the attachment could not be made, no album
\* card made by that call remains on the board, whatever requests succeed or
\* fail, the compensating delete among them.  create_album_card returns a card
\* only after the checklist, the 4 checkitems and the attachment are made, so
\* the cards left by calls that returned none are the new cards of
\* albums_pending that lack one of these.
C2_NoPartialAlbumCardRemains ==
  last.cmd = "load_data" =>
    \A c \in (Len(last.pre.cards) + 1)..Len(board.cards) :
      (~board.cards[c].closed /\ board.cards[c].idList = last.lists.albums_pending)
        => /\ board.cards[c].checklist = "Tasks"
           /\ Len(board.cards[c].items) = Len(album_tasks)
           /\ Len(board.cards[c].attachments) = 1

\* the title a checkitem stands for: the name of the card it links to, or its
\* name
ResolvedTitle(b, checkitem) ==
  IF StartsWithHttp(checkitem.name)
  THEN IF Alive(b, LastSegment(checkitem.name))
       THEN b.cards[LastSegment(checkitem.name)].name
       ELSE <<>>
  ELSE checkitem.name

\* C4: after a load_data run in which every request succeeds, for every artist
\* and album title of the local data, the artist's Albums checklist has exactly
\* one checkitem whose resolved title is that title, and it is a link; for new
\* and known artists and any local list of albums, lists that repeat a title
\* included.
C4_ExactlyOneLinkedCheckitem ==
  (last.cmd = "load_data" /\ Clean(last.log)) =>
    \A artist \in DOMAIN last.args.directory :
      \A k \in 1..Len(last.args.directory[artist]) :
        LET artist_card == ArtistCardOn(board, last.lists, artist)
            items == board.cards[artist_card].items
            named == {p \in 1..Len(items) :
                        ResolvedTitle(board, items[p])
                          = <<last.args.directory[artist][k]>>}
        IN  /\ artist_card # 0
            /\ Cardinality(named) = 1
            /\ \A p \in named : StartsWithHttp(items[p].name)

Unknown(entry) == \A task \in TaskKeys : entry.tasks[task] = "None"

Concrete(entry) == \A task \in TaskKeys : entry.tasks[task] \in {"True", "False"}

\* C10: artist_status reports one entry for every checkitem of the artist's
\* Albums checklist: a checkitem that is no link, and a link whose card or
\* Tasks checklist cannot be resolved, is reported with all 4 tasks unknown,
\* and a link that resolves with a boolean for each of the 4 tasks.
C10_OneEntryPerCheckitem ==
  (last.cmd = "artist_status" /\ last.ret.ok) =>
    LET artist_card == ArtistCardOn(board, last.lists, last.args.artist)
        items == board.cards[artist_card].items
        albums == last.ret.v.albums
    IN  /\ Cardinality(DOMAIN albums) = Len(items)
        /\ \A title \in DOMAIN albums : Unknown(albums[title]) \/ Concrete(albums[title])
        /\ \A p \in 1..Len(items) :
             IF ~StartsWithHttp(items[p].name)
             THEN items[p].name \in DOMAIN albums /\ Unknown(albums[items[p].name])
             ELSE IF /\ Alive(board, LastSegment(items[p].name))
                     /\ board.cards[LastSegment(items[p].name)].checklist = "Tasks"
                     /\ Clean(last.log)
             THEN /\ ResolvedTitle(board, items[p]) \in DOMAIN albums
                  /\ Concrete(albums[ResolvedTitle(board, items[p])])
             ELSE TRUE

----------------------------------------------------------------------------
(* Properties of the status commands *)

\* C11: artist_status and album_status leave the whole board as it was (no
\* card, list of a card, checklist, checkitem name or checkitem state changes)
\* in every run, whether they return a report or nothing.
C11_StatusReadOnly ==
  last.cmd \in {"artist_status", "album_status"} =>
    /\ board = last.pre
    /\ Requests(last.log, Mutating) = {}

\* album_status has reported an album with complete tasks, fetching its card
C11_Witness ==
  /\ last.cmd = "album_status"
  /\ last.ret.ok
  /\ \E task \in DOMAIN last.ret.v.tasks : last.ret.v.tasks[task]
  /\ Requests(last.log, {"get_card"}) # {}

----------------------------------------------------------------------------
(* Properties of delete_album *)

\* the items of a card of the board, by their ids
ItemIds(b, card_id) ==
  {b.cards[card_id].items[k].id : k \in 1..Len(b.cards[card_id].items)}

\* C12: delete_album deletes the album card first and the artist's checkitem
\* second. A failed card deletion gives failure with no checkitem deletion
\* attempted and the board as it was; a card deletion that succeeds followed
\* by a failed checkitem deletion gives failure with the card gone and the
\* checkitem still there; success is reported exactly when both succeeded.
C12_DeleteAlbumOrder ==
  last.cmd = "delete_album" =>
    LET cards == Requests(last.log, {"delete_card"})
        items == Requests(last.log, {"delete_checkitem"})
    IN  /\ Cardinality(cards) <= 1 /\ Cardinality(items) <= 1
        /\ \A i \in items : \E c \in cards : c < i /\ last.log[c].ok
        /\ \A c \in cards : ~last.log[c].ok =>
             ~last.ret.ok /\ items = {} /\ board = last.pre
        /\ \A c \in cards, i \in items : ~last.log[i].ok =>
             /\ ~last.ret.ok
             /\ board.cards[last.log[c].call.card].closed
             /\ board.cards[last.log[i].call.card].items =
                  last.pre.cards[last.log[i].call.card].items
             /\ last.log[i].call.item \in ItemIds(board, last.log[i].call.card)
        /\ last.ret.ok <=>
             /\ \E c \in cards : last.log[c].ok
             /\ \E i \in items : last.log[i].ok
        /\ \A c \in cards, i \in items : last.log[i].ok =>
             /\ board.cards[last.log[c].call.card].closed
             /\ last.log[i].call.item \notin ItemIds(board, last.log[i].call.card)

\* the card was deleted and the deletion of its checkitem failed
C12_Witness ==
  /\ last.cmd = "delete_album"
  /\ \E c \in Requests(last.log, {"delete_card"}) : last.log[c].ok
  /\ \E i \in Requests(last.log, {"delete_checkitem"}) : ~last.log[i].ok
  /\ ~last.ret.ok

----------------------------------------------------------------------------
(* Failures inside complete_tasks and reset_tasks *)

\* the requests of the last run that update a task of an album card, and
\* those that update a checkitem of an artist's card
TaskUpdates ==
  {k \in Requests(last.log, {"update_checkitem"}) :
     last.pre.cards[last.log[k].call.card].checklist = "Tasks"}

ArtistUpdates == Requests(last.log, {"update_checkitem"}) \ TaskUpdates

\* the state of the checkitem a request of the last run addressed, on a board
ItemStateOn(b, k) ==
  LET items == b.cards[last.log[k].call.card].items
  IN  {items[j].state : j \in {j \in 1..Len(items) : items[j].id = last.log[k].call.item}}

\* C13: in complete_tasks a failed update of a requested task ends the call
\* with an absent result: it is the call's last request (no further task
\* update, no move, no update of the artist's checkitem), and the tasks
\* updated before it in the same call are complete on the board.
C13_CompleteAbortsAtFailedUpdate ==
  last.cmd = "complete_tasks" =>
    \A k \in TaskUpdates : ~last.log[k].ok =>
      /\ k = Len(last.log)
      /\ ~last.ret.ok
      /\ \A j \in TaskUpdates : j < k =>
           last.log[j].ok /\ ItemStateOn(board, j) = {"complete"}

\* a task was updated and the update of the next task failed
C13_Witness ==
  /\ last.cmd = "complete_tasks"
  /\ \E j, k \in TaskUpdates : j < k /\ last.log[j].ok /\ ~last.log[k].ok
  /\ ~last.ret.ok

\* the album cards whose task checkitems the last run fetched
AlbumCardsOfRun ==
  {last.log[k].call.card : k \in {k \in Requests(last.log, {"get_checkitems"}) :
     last.log[k].ok /\ last.pre.cards[last.log[k].call.card].checklist = "Tasks"}}

\* the state, before the last run, of the artist's checkitem of the album
LinkedStateBefore ==
  LET artist_card == ArtistCardOn(last.pre, last.lists, last.args.artist)
  IN  last.pre.cards[artist_card]
        .items[AlbumItemOn(last.pre, artist_card, last.args.album)].state

Moves == Requests(last.log, {"move_card"})

\* C14: in complete_tasks, once the task updates have succeeded, a failed
\* card move or a failed update of the artist's checkitem does not change
\* the result: a run that got as far as the move or the checkitem update
\* returns a report whose completed flag is true iff all 4 tasks are complete
\* on the card, and after a failed move the artist's checkitem is still
\* updated when its state is not the wanted one.
C14_MoveAndLinkFailuresNotFatal ==
  (last.cmd = "complete_tasks" /\ Moves \cup ArtistUpdates # {}) =>
    /\ last.ret.ok
    /\ \A c \in AlbumCardsOfRun :
         last.ret.v.completed <=>
           Cardinality(CompleteTasksOn(board, c)) = Len(album_tasks)
    /\ \A k \in Moves : ~last.log[k].ok =>
         LET state == IF last.ret.v.completed THEN "complete" ELSE "incomplete"
         IN  LinkedStateBefore # state =>
               \E j \in ArtistUpdates : j > k /\ last.log[j].call.state = state

\* the move failed, the artist's checkitem was updated after it and the
\* report says the album is completed
C14_Witness ==
  /\ last.cmd = "complete_tasks"
  /\ \E k \in Moves : ~last.log[k].ok /\ \E j \in ArtistUpdates : j > k
  /\ last.ret.ok
  /\ last.ret.v.completed

\* C15: in reset_tasks the first failing step (the update of a task, the move
\* of the card to albums_pending, the update of the artist's checkitem) is
\* the last request of the call and the call returns failure; the steps come
\* in the order task updates, move, update of the artist's checkitem; the
\* call returns success only when every step it issued succeeded.
C15_ResetAbortsAtFirstFailure ==
  last.cmd = "reset_tasks" =>
    /\ \A k \in Requests(last.log, Mutating) : ~last.log[k].ok =>
         k = Len(last.log) /\ ~last.ret.ok
    /\ Requests(last.log, Mutating) = TaskUpdates \cup Moves \cup ArtistUpdates
    /\ Cardinality(Moves) <= 1 /\ Cardinality(ArtistUpdates) <= 1
    /\ \A u \in TaskUpdates, m \in Moves \cup ArtistUpdates : u < m
    /\ \A m \in Moves, a \in ArtistUpdates : m < a
    /\ \A m \in Moves : last.log[m].call.item = last.lists.albums_pending
    /\ \A u \in TaskUpdates \cup ArtistUpdates : last.log[u].call.state = "incomplete"
    /\ last.ret.ok => \A k \in Requests(last.log, Mutating) : last.log[k].ok

\* a task was reset and the move that followed failed
C15_Witness ==
  /\ last.cmd = "reset_tasks"
  /\ \E u \in TaskUpdates : last.log[u].ok
  /\ \E m \in Moves : ~last.log[m].ok
  /\ ~last.ret.ok

----------------------------------------------------------------------------
(* Lookups that fail in complete_tasks, reset_tasks and delete_album *)

\* the last run found the album's card: a card of the album's title was
\* fetched through a checkitem of the artist's card
AlbumCardResolved ==
  \E k \in Requests(last.log, {"get_card"}) :
    last.log[k].ok /\ last.pre.cards[last.log[k].call.card].name = <<last.args.album>>

\* the last run found what its command works on: the album's card and, for
\* complete_tasks and reset_tasks, the checkitems of its Tasks checklist
Resolved ==
  /\ AlbumCardResolved
  /\ last.cmd \in {"complete_tasks", "reset_tasks"} =>
       \E c \in AlbumCardsOfRun : last.pre.cards[c].items # <<>>

\* C16: when complete_tasks, reset_tasks or delete_album cannot resolve the
\* artist, the album card, the Tasks checklist or its checkitems (they are
\* not on the board, or the request that fetches them fails), the command
\* reports failure, issues no update, move or delete, and leaves the board
\* as it was.
C16_UnresolvedMeansUntouched ==
  last.cmd \in {"complete_tasks", "reset_tasks", "delete_album"} =>
    /\ ~AlbumFound(last.pre, last.lists, last.args.artist, last.args.album)
         => ~Resolved
    /\ ~Resolved =>
         /\ ~last.ret.ok
         /\ Requests(last.log, Mutating) = {}
         /\ board = last.pre

\* the task checkitems of a card that is not in albums_pending could not be
\* fetched
C16_Witness ==
  /\ last.cmd \in {"complete_tasks", "reset_tasks"}
  /\ ~Resolved
  /\ \E k \in Requests(last.log, {"get_checkitems"}) :
       /\ ~last.log[k].ok
       /\ last.pre.cards[last.log[k].call.card].checklist = "Tasks"
       /\ last.pre.cards[last.log[k].call.card].idList # last.lists.albums_pending

----------------------------------------------------------------------------
(* Failures inside load_data *)

\* C17: a load_data run never ends abnormally because of a failing request:
\* whatever requests fail after the lists were bound (the fetch of an
\* artist's Albums checkitems included), the run goes through every artist
\* and returns its report.
C17_LoadDataReachesReport ==
  last.cmd = "load_data" => ~last.exc /\ last.ret.ok

----------------------------------------------------------------------------
(* The albums file of an artist directory (utils.py) *)

MaxLines == 3
MaxLineLen == 2

\* the characters str.strip() removes
Whitespace == {" ", "\t", "\n"}

\* the characters of a line before its newline
Characters == {" ", "t"}

RECURSIVE lstrip(_)
lstrip(line) ==
  IF line # <<>> /\ Head(line) \in Whitespace THEN lstrip(Tail(line)) ELSE line

RECURSIVE rstrip(_)
rstrip(line) ==
  IF line # <<>> /\ line[Len(line)] \in Whitespace
  THEN rstrip(SubSeq(line, 1, Len(line) - 1))
  ELSE line

\* str.strip()
strip(line) == rstrip(lstrip(line))

\* every line of the file, stripped
RECURSIVE read_file_lines_loop(_, _, _)
read_file_lines_loop(f, i, stripped_lines) ==
  IF i > Len(f) THEN stripped_lines
  ELSE read_file_lines_loop(f, i + 1, Append(stripped_lines, strip(f[i])))

read_file_lines_stripped(f) == read_file_lines_loop(f, 1, <<>>)

\* albums files: lines of characters, each ended by its newline
Files ==
  SeqsUpTo({Append(line, "\n") : line \in SeqsUpTo(Characters, MaxLineLen)}, MaxLines)

\* load_data reads the albums file of an artist directory
ReadAlbums ==
  /\ \E f \in Files :
       last' = [NoRun EXCEPT !.cmd = "read_file_lines_stripped",
                             !.args.directory = f,
                             !.ret = Some(read_file_lines_stripped(f))]
  /\ UNCHANGED <<board_lists, board, manager, prev, ops, failed>>

InitFiles == Init /\ board_lists = FullBoard

NextFiles == ReadAlbums

SpecFiles == InitFiles /\ [][NextFiles]_vars

\* the stripped lines of a file that are not empty, in the file's order
RECURSIVE NonEmptyStripped(_)
NonEmptyStripped(f) ==
  IF f = <<>> THEN <<>>
  ELSE (IF strip(Head(f)) = <<>> THEN <<>> ELSE <<strip(Head(f))>>)
       \o NonEmptyStripped(Tail(f))

\* C18: the album titles load_data uses for an artist are exactly the
\* stripped lines of the albums file that are not empty after stripping, in
\* the file's order; a blank or whitespace-only line never becomes a title.
C18_TitlesAreNonEmptyLines ==
  last.cmd = "read_file_lines_stripped" =>
    /\ last.ret.v = NonEmptyStripped(last.args.directory)
    /\ \A i \in 1..Len(last.ret.v) : last.ret.v[i] # <<>>

----------------------------------------------------------------------------
(* Lists named alike *)

\* the positions of the board's lists that have the role's configured name
ListsNamed(role) ==
  {i \in 1..Len(board_lists) : board_lists[i].name = ConfiguredName(role)}

\* C19: when several lists of the board have the configured name of a role,
\* the construction binds the role to the first of them in the order the
\* board returns its lists.
C19_FirstListOfTheNameIsBound ==
  manager.state = "ready" =>
    \A role \in Roles :
      \E i \in ListsNamed(role) :
        /\ \A j \in ListsNamed(role) : i <= j
        /\ manager.lists[role] = board_lists[i].id

----------------------------------------------------------------------------
(* Cards deleted by load_data *)

\* C20: during load_data the only cards deleted are album cards that
\* create_album_card made and rolls back: every card deleted in the run was
\* created in the run in albums_pending, and a newly created artist card is
\* never deleted when a later step of creating the artist fails.
C20_OnlyAlbumCardsAreDeleted ==
  last.cmd = "load_data" =>
    \A k \in Requests(last.log, {"delete_card"}) : last.log[k].ok =>
      \E j \in Requests(last.log, {"create_card"}) :
        /\ j < k
        /\ last.log[j].ok
        /\ last.log[j].call.card = last.log[k].call.card
        /\ last.log[j].call.item = last.lists.albums_pending

----------------------------------------------------------------------------
(* The linking pass of load_data *)

\* the artist cards whose Albums checkitems the last run fetched
FetchedArtistCards ==
  {last.log[g].call.card : g \in {g \in Requests(last.log, {"get_checkitems"}) :
     last.log[g].ok}}

\* the checkitems renamed by the last run: <<card, checkitem>>
Renamed ==
  {<<last.log[k].call.card, last.log[k].call.item>> :
     k \in {k \in Requests(last.log, {"update_checkitem"}) : last.log[k].ok}}

\* the checkitems that were literal titles when the linking pass fetched
\* them: those still literal and those the pass renamed
UnlinkedWhenFetched ==
  {ci \in UNION {{<<c, board.cards[c].items[p].id>> :
                    p \in 1..Len(board.cards[c].items)} : c \in FetchedArtistCards} :
     \/ ci \in Renamed
     \/ \E p \in 1..Len(board.cards[ci[1]].items) :
          /\ board.cards[ci[1]].items[p].id = ci[2]
          /\ ~StartsWithHttp(board.cards[ci[1]].items[p].name)}

\* a run that only links: every artist of the directory has an empty albums
\* file, so that no album is added before the linking pass
OnlyLinks ==
  /\ last.cmd = "load_data"
  /\ \A artist \in DOMAIN last.args.directory : last.args.directory[artist] = <<>>

\* C21: in the linking pass one album card provisioning is attempted for
\* every checkitem of the Albums checklist that is a literal title; when it
\* and the update of the checkitem succeed, that checkitem (same id, same
\* position) bears the new card's short URL and is incomplete; the update
\* always asks for the state incomplete; checkitems that are links already
\* are left as they are.
C21_LinkingPassLinksInPlace ==
  last.cmd = "load_data" =>
    /\ OnlyLinks =>
         Cardinality({k \in Requests(last.log, {"create_card"}) :
                        last.log[k].call.item = last.lists.albums_pending})
           = Cardinality(UnlinkedWhenFetched)
    /\ \A k \in Requests(last.log, {"update_checkitem"}) :
         /\ last.log[k].call.state = "incomplete"
         /\ k > 1
         /\ last.log[k - 1].call.m = "add_attachment"
         /\ last.log[k - 1].ok
         /\ last.log[k].ok =>
              \E p \in 1..Len(board.cards[last.log[k].call.card].items) :
                board.cards[last.log[k].call.card].items[p] =
                  [id |-> last.log[k].call.item,
                   name |-> ShortUrl(last.log[k - 1].call.card),
                   state |-> "incomplete"]
    /\ \A c \in 1..Len(last.pre.cards) :
         (~last.pre.cards[c].closed /\ last.pre.cards[c].checklist = "Albums") =>
           \A p \in 1..Len(last.pre.cards[c].items) :
             /\ p <= Len(board.cards[c].items)
             /\ board.cards[c].items[p].id = last.pre.cards[c].items[p].id
             /\ StartsWithHttp(last.pre.cards[c].items[p].name) =>
                  board.cards[c].items[p] = last.pre.cards[c].items[p]

\* a run that only links has renamed a checkitem that was a literal title on
\* the board before the run, next to a checkitem that was a link already
C21_Witness ==
  /\ OnlyLinks
  /\ \E ci \in Renamed :
       /\ ci[1] <= Len(last.pre.cards)
       /\ \E p, q \in 1..Len(last.pre.cards[ci[1]].items) :
            /\ last.pre.cards[ci[1]].items[p].id = ci[2]
            /\ ~StartsWithHttp(last.pre.cards[ci[1]].items[p].name)
            /\ StartsWithHttp(last.pre.cards[ci[1]].items[q].name)

----------------------------------------------------------------------------
(* Albums of a known artist *)

\* the checkitems of the card that stand for the title: links to a card of
\* that title and literal names
ItemsTitled(b, c, title) ==
  {p \in 1..Len(b.cards[c].items) : ResolvedTitle(b, b.cards[c].items[p]) = <<title>>}

\* C22: for an artist that has a card, load_data makes an album card and
\* appends a checkitem only for the local titles that no checkitem of the
\* artist's Albums checklist stands for (a link stands for the title of its
\* card, a literal name for itself): for a title that is represented before
\* the run, the run appends no checkitem of that title to the artist's
\* card, whatever requests fail.
C22_RepresentedTitleNotAddedAgain ==
  last.cmd = "load_data" =>
    \A artist \in DOMAIN last.args.directory :
      LET c == ArtistCardOn(last.pre, last.lists, artist)
      IN  c # 0 =>
            \A title \in Titles :
              ItemsTitled(last.pre, c, title) # {} =>
                ItemsTitled(board, c, title) = ItemsTitled(last.pre, c, title)

----------------------------------------------------------------------------
(* The album album_status reports on *)

\* the checkitems of the artist's card, before the last run, that album_status
\* can report on: links to a card of the album's title with only links
\* before them
Hits ==
  LET c == ArtistCardOn(last.pre, last.lists, last.args.artist)
  IN  IF c = 0 THEN {}
      ELSE {p \in AlbumItemsOn(last.pre, c, last.args.album) :
              \A q \in 1..p : StartsWithHttp(last.pre.cards[c].items[q].name)}

\* the card a checkitem of the artist's card links to
CardOfHit(p) ==
  LastSegment(last.pre.cards[ArtistCardOn(last.pre, last.lists, last.args.artist)]
                .items[p].name)

\* the report is the one of the checkitem at position p
ReportsOn(p) ==
  LET c == ArtistCardOn(last.pre, last.lists, last.args.artist)
      tasks == last.pre.cards[CardOfHit(p)].items
  IN  /\ last.ret.v.artist = last.args.artist
      /\ last.ret.v.album = last.args.album
      /\ last.ret.v.completed = (last.pre.cards[c].items[p].state = "complete")
      /\ \A j \in 1..Len(tasks) :
           tasks[j].name \in TaskKeys =>
             last.ret.v.tasks[tasks[j].name] = (tasks[j].state = "complete")

----------------------------------------------------------------------------
(* Literal titles under repeated runs *)

\* the open cards of the artists' list that bear the name of an artist of the
\* directory and have an Albums checklist
LocalArtistCards(b) ==
  {c \in 1..Len(b.cards) :
     /\ ~b.cards[c].closed
     /\ b.cards[c].idList = last.lists.artists
     /\ b.cards[c].checklist = "Albums"
     /\ \E artist \in DOMAIN last.args.directory : b.cards[c].name = <<artist>>}

AllLinked ==
  \A c \in LocalArtistCards(board) :
    \A p \in 1..Len(board.cards[c].items) :
      StartsWithHttp(board.cards[c].items[p].name)

\* a run in which every request succeeded and that left the board as it
\* found it: every later run on the same directory in which every request
\* succeeds is this run again
Settled ==
  /\ last.cmd = "load_data"
  /\ Clean(last.log)
  /\ ~last.exc
  /\ board = last.pre

\* C24: when load_data is run again and again on the same directory and
\* from some run on every request succeeds, every checkitem that is a
\* literal title on the Albums checklist of an artist of the directory is
\* eventually a link.  Runs in which every request succeeds repeat
\* themselves once one of them changes nothing, so the statement requires
\* that such a run leaves no literal title on the cards of the directory's
\* artists.
C24_LiteralTitlesEventuallyLinked == Settled => AllLinked

----------------------------------------------------------------------------
(* A command run again after a run that failed *)

\* the album's card, before the last run
AlbumCardBefore ==
  LET artist_card == ArtistCardOn(last.pre, last.lists, last.args.artist)
  IN  LastSegment(last.pre.cards[artist_card]
                    .items[AlbumItemOn(last.pre, artist_card, last.args.album)].name)

\* the tasks complete_tasks was asked for: every task when none is named
RequestedTasks ==
  IF last.args.tasks = <<>> THEN TaskKeys
  ELSE {<<last.args.tasks[k]>> : k \in 1..Len(last.args.tasks)}

\* the last run is the same command on the same album as the run before, in
\* which a request failed, and every request of the last run succeeded
RetriedAfterFailure(cmd) ==
  /\ TaskRunSucceeded
  /\ last.cmd = cmd
  /\ prev.cmd = cmd
  /\ prev.args = last.args
  /\ ~prev.clean

\* the board differs from the board before the last run on the album's card
\* and on the artist's card only
OnlyAlbumTouched ==
  /\ Len(board.cards) = Len(last.pre.cards)
  /\ \A c \in 1..Len(board.cards) :
       (c # AlbumCardBefore
          /\ c # ArtistCardOn(last.pre, last.lists, last.args.artist))
         => board.cards[c] = last.pre.cards[c]

\* C25: when complete_tasks is called again with the same arguments after a
\* call that requests failing had cut short or degraded, and every request of
\* the second call succeeds, the board is the one a single successful call
\* leaves: the requested tasks are complete, the other tasks are as they
\* were, the card is in the list and the artist's checkitem in the state
\* that match the tasks, and nothing else has changed.
C25_CompleteTasksRetried ==
  RetriedAfterFailure("complete_tasks") =>
    /\ last.ret.ok
    /\ \A p \in 1..Len(board.cards[AlbumCardBefore].items) :
         LET item == board.cards[AlbumCardBefore].items[p]
             was == last.pre.cards[AlbumCardBefore].items[p]
         IN  /\ item.id = was.id /\ item.name = was.name
             /\ item.name \in RequestedTasks => item.state = "complete"
             /\ item.name \notin RequestedTasks => item.state = was.state
    /\ TripleConsistent(board, last.lists, last.args.artist, last.args.album)
    /\ OnlyAlbumTouched

\* the second call had no task to update and moved the card that the call
\* before, in which a request failed, had left in another list
C25_Witness ==
  /\ RetriedAfterFailure("complete_tasks")
  /\ TaskUpdates = {}
  /\ \E m \in Moves : last.log[m].ok
  /\ ~TripleConsistent(last.pre, last.lists, last.args.artist, last.args.album)

----------------------------------------------------------------------------
(* The lists cards live in *)

ArtistNames == {<<Artists[i]>> : i \in 1..Len(Artists)}

AlbumNames == {<<title>> : title \in Titles}

\* the lists every manager constructed on the board binds
BoundLists == bind_lists_loop(board_lists, 1, [role \in Roles |-> 0])

WorkflowLists ==
  {BoundLists.albums_pending, BoundLists.albums_doing, BoundLists.albums_done}

\* C26: after any sequence of load_data, complete_tasks, reset_tasks and
\* delete_album runs, whatever requests fail, every artist card is in the
\* artists' list and every album card in one of albums_pending, albums_doing
\* and albums_done, never in the artists' list; a card is created in the
\* artists' list (an artist) or in albums_pending (an album), and a card is
\* moved to one of the three album lists only.
C26_CardsLiveInTheirLists ==
  /\ \A c \in 1..Len(board.cards) :
       ~board.cards[c].closed =>
         /\ board.cards[c].name \in ArtistNames \cup AlbumNames
         /\ board.cards[c].name \in ArtistNames =>
              /\ board.cards[c].idList = BoundLists.artists
              /\ board.cards[c].checklist # "Tasks"
         /\ board.cards[c].name \in AlbumNames =>
              /\ board.cards[c].idList \in WorkflowLists
              /\ board.cards[c].idList # BoundLists.artists
              /\ board.cards[c].checklist # "Albums"
  /\ \A k \in Requests(last.log, {"create_card"}) :
       last.log[k].call.item \in {BoundLists.artists, BoundLists.albums_pending}
  /\ \A k \in Requests(last.log, {"move_card"}) :
       /\ last.log[k].call.item \in WorkflowLists
       /\ last.pre.cards[last.log[k].call.card].name \in AlbumNames

\* after a run in which a request failed, the board holds an artist card, an
\* album card that was moved to albums_done and one still in albums_pending
C26_Witness ==
  /\ ~Clean(last.log)
  /\ \E a, c, d \in 1..Len(board.cards) :
       /\ ~board.cards[a].closed /\ board.cards[a].name \in ArtistNames
       /\ ~board.cards[c].closed /\ board.cards[c].name \in AlbumNames
       /\ board.cards[c].idList = BoundLists.albums_done
       /\ ~board.cards[d].closed /\ board.cards[d].name \in AlbumNames
       /\ board.cards[d].idList = BoundLists.albums_pending

----------------------------------------------------------------------------
(* Album cards and the checkitems that point to them *)

\* the checkitems of open artist cards that are links to the card:
\* <<artist card, position>>
LinksTo(b, n) ==
  {cp \in UNION {{<<c, p>> : p \in 1..Len(b.cards[c].items)} :
                   c \in {c \in 1..Len(b.cards) :
                            ~b.cards[c].closed /\ b.cards[c].checklist = "Albums"}} :
     b.cards[cp[1]].items[cp[2]].name = ShortUrl(n)}

\* C27: after a load_data run, whatever requests fail, every album card that
\* the run created and that is still on the board is the target of exactly
\* one linked checkitem of an artist's Albums checklist: no failed addition
\* or renaming of a checkitem leaves a provisioned album card that no
\* checkitem points to.
C27_NoUnreferencedAlbumCard ==
  last.cmd = "load_data" =>
    \A n \in (Len(last.pre.cards) + 1)..Len(board.cards) :
      (~board.cards[n].closed /\ board.cards[n].name \in AlbumNames) =>
        Cardinality(LinksTo(board, n)) = 1

----------------------------------------------------------------------------
(* What a command may delete *)

\* the cards that were on the board before the last run and that the run
\* deleted, and the checkitems of the cards of before that the run removed:
\* <<card, checkitem id>>
CardsDeleted ==
  {c \in 1..Len(last.pre.cards) : ~last.pre.cards[c].closed /\ board.cards[c].closed}

ItemsDeleted ==
  UNION {{<<c, i>> : i \in ItemIds(last.pre, c) \ ItemIds(board, c)} :
           c \in {c \in 1..Len(last.pre.cards) : ~board.cards[c].closed}}

\* the name the checkitem had before the last run
NameBefore(c, i) ==
  last.pre.cards[c].items[ItemPos(last.pre.cards[c].items, i, 1)].name

\* C28: load_data, complete_tasks, reset_tasks, artist_status and
\* album_status delete no card and no checkitem that was on the board when
\* the command started. Only delete_album does, and what it removes is one
\* album card, by a delete_card request that succeeded, and the checkitem of
\* an artist's card that was the link to that card.
C28_OnlyDeleteAlbumDeletes ==
  /\ last.cmd # "delete_album" => CardsDeleted = {} /\ ItemsDeleted = {}
  /\ last.cmd = "delete_album" =>
       /\ Cardinality(CardsDeleted) <= 1
       /\ \A c \in CardsDeleted :
            /\ last.pre.cards[c].name \in AlbumNames
            /\ \E k \in Requests(last.log, {"delete_card"}) :
                 last.log[k].ok /\ last.log[k].call.card = c
       /\ \A ci \in ItemsDeleted :
            /\ last.pre.cards[ci[1]].checklist = "Albums"
            /\ \E c \in CardsDeleted : NameBefore(ci[1], ci[2]) = ShortUrl(c)

\* a load_data run on a board that already had cards deleted a card: one it
\* had created itself
C28_Witness ==
  /\ last.cmd = "load_data"
  /\ \E c \in 1..Len(last.pre.cards) : ~last.pre.cards[c].closed
  /\ \E k \in Requests(last.log, {"delete_card"}) : last.log[k].ok

----------------------------------------------------------------------------
(* reset_tasks run again after a run that failed *)

\* the tasks that were complete on the album's card before the last run
CompleteBefore == CompleteTasksOn(last.pre, AlbumCardBefore)

\* C29: when reset_tasks is called again for the same album after a call
\* that a failing request had cut short, and every request of the second
\* call succeeds, the call reports success, every task of the album is
\* incomplete, the card is in albums_pending and the artist's checkitem is
\* incomplete; the second call updates exactly the tasks that were still
\* complete, moves the card only if it was not in albums_pending and updates
\* the artist's checkitem only if it was not incomplete; nothing else on the
\* board has changed.
C29_ResetTasksRetried ==
  RetriedAfterFailure("reset_tasks") =>
    /\ last.ret.ok
    /\ CompleteTasksOn(board, AlbumCardBefore) = {}
    /\ board.cards[AlbumCardBefore].idList = last.lists.albums_pending
    /\ TripleConsistent(board, last.lists, last.args.artist, last.args.album)
    /\ \A k \in TaskUpdates :
         /\ last.log[k].call.card = AlbumCardBefore
         /\ last.log[k].call.state = "incomplete"
         /\ ItemStateOn(last.pre, k) = {"complete"}
    /\ Cardinality(TaskUpdates) = Cardinality(CompleteBefore)
    /\ Cardinality(Moves) =
         IF last.pre.cards[AlbumCardBefore].idList = last.lists.albums_pending
         THEN 0 ELSE 1
    /\ Cardinality(ArtistUpdates) = IF LinkedStateBefore = "incomplete" THEN 0 ELSE 1
    /\ OnlyAlbumTouched

\* the call before had reset some tasks and left the card in albums_done:
\* the second call resets the tasks that were left and moves the card
C29_Witness ==
  /\ RetriedAfterFailure("reset_tasks")
  /\ last.pre.cards[AlbumCardBefore].idList = last.lists.albums_done
  /\ CompleteBefore # {}
  /\ Cardinality(CompleteBefore) < Len(album_tasks)
  /\ \E m \in Moves : last.log[m].ok

====
